---- MODULE Spec2Model ----
(***************************************************************************)
(* A model of the report-fetch pipeline of lark_database:                  *)
(*   YKYRequester.get_financial_data   (src/src/cinema_client.py)          *)
(*   download_urls, clear_files, combine_data_files, order_by_time         *)
(*                                      (src/utility/helpers.py)           *)
(*   get_signature                      (src/utility/helpers.py)           *)
(*   Decrypter      (src/utility/sha1prng.py, src/sha1prng/sha1prng.py)    *)
(*   job_per_day and the scheduler      (src/main.py, src/src/driver.py)   *)
(* The working directory is a function from file names to file contents;   *)
(* a file content is a sequence of lines, a line a sequence of CSV cells,  *)
(* a cell a string.                                                        *)
(***************************************************************************)
EXTENDS Integers, Sequences, FiniteSets, TLC

VARIABLES
    pc,                 \* position of the caller inside get_financial_data
    entries,            \* the (financial_category, timespan, search_date) tuple
    timestamp_column,   \* config.get_timestamp_column(category) of the schema
    vendor_response,    \* the JSON envelope of the vendor query
    download_url_list,  \* the encrypted links extracted from the envelope
    file_id,            \* download_urls: number of shards written so far
    file_path_stack,    \* download_urls: its local list of written shards
    file_name_stack,    \* _process_downloaded_data: [] until download_urls returns
    disk,               \* file name -> content
    created,            \* history: names of the files this call opened for writing
    shard_text,         \* history: the text written to each shard, in order
    http_log,           \* history: the HTTP requests issued by this call
    error,              \* type of the exception that reached the caller
    raised_in,          \* history: the stage the exception was raised in
    result,             \* the value returned to the caller
    clock,              \* the latest reading of time.time(), in milliseconds
    query_parameters,   \* the dict of the vendor query of this call
    signed_parameters,  \* history: the dict get_signature was called with
    signature_string,   \* history: the string get_signature signed
    sent_requests,      \* history: the dicts sent to the vendor, over all calls
    decrypter,          \* the Decrypter object: its module, secret and sha1prng_key
    derivations,        \* history: the secrets get_sha1prng_key was called with
    decode_value,       \* the encrypted value of the latest decode call
    decode_key,         \* history: the key the latest decode call decrypted with
    decode_result,      \* what the latest decode call raised or returned
    scheduler,          \* the scheduler process of main.py
    job_step,           \* job_per_day: the step to run next, 0 when no run is on
    job_executed,       \* job_per_day: the steps the latest run has completed
    job_failed,         \* job_per_day: the step that raised in the latest run
    job_log,            \* history: per finished run, the step that raised
    queries,            \* a FinancialQueries object: category, time_spans, query_dates, size
    queries_raised,     \* what the latest call on the FinancialQueries object raised
    queries_accepted,   \* history: the entries the object took, in the order given
    feishu_service,     \* the Feishu service: app token -> its tables and their records
    feishu_next_id,     \* the Feishu service: the record id it gives out next
    csv_files,          \* the CSV files handed to the FeishuClient: path -> rows
    feishu_requests,    \* history: the requests of the latest FeishuClient call
    feishu_raised,      \* what the latest FeishuClient or DataSyncClient call raised
    feishu_done,        \* history: the finished calls, with their arguments
    find_json_data,     \* find_matching_table: the json_data it is given
    find_table_name,    \* find_matching_table: the table_name it is given
    find_result,        \* find_matching_table: what it raised or returned
    fired_at,           \* the scheduler: the trigger instant it fired last
    executions          \* the scheduler: the job executions running in its pool

\* the state of a get_financial_data call
CallState == <<pc, entries, timestamp_column, vendor_response, download_url_list,
               file_id, file_path_stack, file_name_stack, disk, created, shard_text,
               http_log, error, raised_in, result, clock, query_parameters,
               signed_parameters, signature_string, sent_requests>>

\* the state of a Decrypter
DecrypterState == <<decrypter, derivations, decode_value, decode_key, decode_result>>

\* the state of the scheduled daily job
SchedulerState == <<scheduler, job_step, job_executed, job_failed, job_log>>

\* the state of a FinancialQueries object
QueriesState == <<queries, queries_raised, queries_accepted>>

\* the state of the Feishu service and of the calls on a FeishuClient
FeishuState == <<feishu_service, feishu_next_id, csv_files, feishu_requests,
                 feishu_raised, feishu_done>>

\* the state of a find_matching_table call
FindState == <<find_json_data, find_table_name, find_result>>

\* the state of the scheduler's pool of job executions
JobsState == <<fired_at, executions>>

\* the state a get_financial_data call does not touch
OutsideCall == <<DecrypterState, SchedulerState, QueriesState, FeishuState, FindState,
                 JobsState>>

\* the state a Decrypter does not touch
OutsideDecrypter == <<CallState, SchedulerState, QueriesState, FeishuState, FindState,
                      JobsState>>

\* the state the scheduled daily job does not touch
OutsideScheduler == <<CallState, DecrypterState, QueriesState, FeishuState, FindState,
                      JobsState>>

\* the state a FinancialQueries object does not touch
OutsideQueries == <<CallState, DecrypterState, SchedulerState, FeishuState, FindState,
                    JobsState>>

\* the state a FeishuClient call does not touch
OutsideFeishu == <<CallState, DecrypterState, SchedulerState, QueriesState, FindState,
                   JobsState>>

\* the state a find_matching_table call does not touch
OutsideFind == <<CallState, DecrypterState, SchedulerState, QueriesState, FeishuState,
                 JobsState>>

\* the state the job executions do not touch
OutsideJobs == <<CallState, DecrypterState, SchedulerState, QueriesState, FeishuState,
                 FindState>>

vars == <<CallState, DecrypterState, SchedulerState, QueriesState, FeishuState,
          FindState, JobsState>>

----------------------------------------------------------------------------
(* Bounds of the model *)

\* longest downloadUrlList the vendor returns
MaxLinks == 2
\* longest shard of the merge-only specification, in lines
MaxShardLines == 4
\* latest reading of the clock, in milliseconds
MaxClock == 2
\* number of vendor queries of the caller's loop
MaxCalls == 2
\* longest decrypted text, in characters
MaxTextLen == 2
\* number of key derivations of one Decrypter
MaxDerivations == 3
\* number of runs of the daily job
MaxRuns == 2
\* largest FinancialQueries batch, in entries
MaxQueries == 3
\* largest dict of the signing-only specification, in items
MaxParams == 3
\* latest day of a record of the destination table
MaxDays == 2
\* largest destination table, in records
MaxRecords == 3
\* number of runs of sync_most_recent_data
MaxSyncs == 2
\* largest id list and largest CSV file, in full chunks
MaxChunks == 2
\* largest distance of the size of a CSV file from a multiple of the chunk size
MaxSpread == 10
\* longest table list given to find_matching_table
MaxItems == 2
\* largest number of job executions running at once
MaxExecutions == 3

----------------------------------------------------------------------------
(* Input validation: YKYRequester._validate_inputs *)

\* the catalog of report categories, C01 to C23
FINANCIAL_DATA_TYPE_MAP ==
    {"C01", "C02", "C03", "C04", "C05", "C06", "C07", "C08", "C09", "C10",
     "C11", "C12", "C13", "C14", "C15", "C16", "C17", "C18", "C19", "C20",
     "C21", "C22", "C23"}

VALID_TIMESPANS == {"month", "day"}

\* FinancialQueries.DATE_FORMATS: the format each granularity's date is meant to have
DATE_FORMATS(time_span) == IF time_span = "month" THEN "%Y-%m" ELSE "%Y-%m-%d"

IsLeap(y) == (y % 4 = 0 /\ y % 100 # 0) \/ y % 400 = 0

DaysInMonth(y, m) ==
    IF m = 2 THEN (IF IsLeap(y) THEN 29 ELSE 28)
    ELSE IF m \in {4, 6, 9, 11} THEN 30 ELSE 31

\* datetime.strptime(date, format) succeeds. A date string is the sequence of
\* its "-"-separated numeric fields: "2025-07-01" is <<2025, 7, 1>>.
strptime_parses(date, format) ==
    IF format = "%Y-%m-%d"
    THEN /\ Len(date) = 3
         /\ date[2] \in 1..12
         /\ date[3] \in 1..DaysInMonth(date[1], date[2])
    ELSE /\ Len(date) = 2
         /\ date[2] \in 1..12

\* _validate_inputs: the type of the exception it raises, or "none"
validate_inputs_no_category_check(financial_category, timespan, search_date) ==
    IF timespan \notin VALID_TIMESPANS
    THEN "InvalidTimespanException"
    ELSE IF ~strptime_parses(search_date, "%Y-%m-%d")
    THEN "ValueError"
    ELSE "none"

validate_inputs(financial_category, timespan, search_date) ==
    IF financial_category \notin FINANCIAL_DATA_TYPE_MAP
    THEN "InvalidFinancialCategoryException"
    ELSE IF timespan \notin VALID_TIMESPANS
    THEN "InvalidTimespanException"
    ELSE IF ~strptime_parses(search_date, "%Y-%m-%d")
    THEN "ValueError"
    ELSE "none"

\* the queries the caller passes
QueryCategories == {"C01", "C99"}
QueryTimespans == {"day", "month", "year"}
QueryDates == {<<2025, 7, 1>>, <<2025, 7>>, <<2025, 2, 30>>}

----------------------------------------------------------------------------
(* Files *)

ShardName(category, date, part) ==
    [kind |-> "shard", category |-> category, date |-> date, part |-> part]

OutputPath(category, date) ==
    [kind |-> "merged", category |-> category, date |-> date, part |-> 0]

NoFiles == <<>>

Write(d, name, content) == (name :> content) @@ d

RemoveNothing(d, names) == d

\* os.remove of every file of names
Remove(d, names) == [n \in (DOMAIN d) \ names |-> d[n]]

Range(s) == {s[i] : i \in DOMAIN s}

\* clear_files: pops and removes every file of the list
clear_files_keeps_first(d, files_to_clear) ==
    Remove(d, {files_to_clear[i] : i \in 2..Len(files_to_clear)})

clear_files(d, files_to_clear) == Remove(d, Range(files_to_clear))

\* _cleanup_on_error: removes the files of the list that exist
cleanup_on_error(d, file_list) == Remove(d, Range(file_list) \cap DOMAIN d)

----------------------------------------------------------------------------
(* Text of a shard and of the merged report *)

T1 == "2025-07-01 08:00:00"
T2 == "2025-07-01 09:00:00"

\* cells whose text begins with the comment marker "#"
HashCells == {"#", "#report", "#total"}

\* line.startswith("#"): the raw line begins with its first cell
StartsWithHash(line) == Len(line) > 0 /\ line[1] \in HashCells

\* get_filtered_lines: the lines of a file that do not start with "#"
get_filtered_lines(lines) == SelectSeq(lines, LAMBDA line : ~StartsWithHash(line))

\* lines[2:]
DropTwo(lines) == SubSeq(lines, 3, Len(lines))

RECURSIVE Flatten(_)
Flatten(seqs) ==
    IF seqs = <<>> THEN <<>> ELSE Head(seqs) \o Flatten(Tail(seqs))

\* combine_data_files, the first file is too short: len(first_lines) < 2
combine_rejects(texts) == Len(get_filtered_lines(texts[1])) < 2

\* combine_data_files, the lines it writes to the output file: the header
\* (first_lines[1]) and then lines[2:] of every file of file_paths
combine_lines_skips_first(texts) ==
    <<get_filtered_lines(texts[1])[2]>>
        \o Flatten([i \in 1..(Len(texts) - 1) |->
                        DropTwo(get_filtered_lines(texts[i + 1]))])

combine_lines(texts) ==
    <<get_filtered_lines(texts[1])[2]>>
        \o Flatten([i \in DOMAIN texts |-> DropTwo(get_filtered_lines(texts[i]))])

----------------------------------------------------------------------------
(* Ordering: order_by_time *)

\* str.strptime(Datetime, "%Y-%m-%d %H:%M:%S", strict=False): the parsed
\* value as a rank, 0 for null (the text does not parse)
strptime_datetime(cell) ==
    IF cell = T1 THEN 1 ELSE IF cell = T2 THEN 2 ELSE 0

\* a strftime that writes no timestamp
strftime_datetime_empty(t) == ""

\* dt.strftime("%Y-%m-%d %H:%M:%S") followed by write_csv: null is written empty
strftime_datetime(t) ==
    IF t = 1 THEN T1 ELSE IF t = 2 THEN T2 ELSE ""

\* read_csv(truncate_ragged_lines=True): a row has the header's columns, longer
\* rows are cut and missing fields are null
read_row(line, ncols) ==
    [c \in 1..ncols |-> IF c <= Len(line) THEN line[c] ELSE ""]

\* every ordering of the rows whose indices are in S
RECURSIVE Orderings(_, _)
Orderings(rows, S) ==
    IF S = {} THEN {<<>>}
    ELSE UNION {{<<rows[i]>> \o rest : rest \in Orderings(rows, S \ {i})} : i \in S}

\* df.sort(column, descending=False): ascending by the parsed value, nulls
\* first; maintain_order is not set, so rows with equal keys come in any order
RECURSIVE SortedFrom(_, _, _)
SortedFrom(rows, col, k) ==
    IF k > 2 THEN {<<>>}
    ELSE {group \o rest :
            group \in Orderings(rows, {i \in DOMAIN rows :
                                          strptime_datetime(rows[i][col]) = k}),
            rest \in SortedFrom(rows, col, k + 1)}

\* the timestamp column of a row after strptime and strftime
reformat_row(row, col) ==
    [row EXCEPT ![col] = strftime_datetime(strptime_datetime(row[col]))]

\* order_by_time raises: df.columns[timestamp_col] is out of range
order_raises(lines, timestamp_col) == timestamp_col >= Len(lines[1])

\* order_by_time: the contents it can leave in the file
order_by_time_keeps_order(lines, timestamp_col) ==
    LET ncols == Len(lines[1])
        rows  == [i \in 1..(Len(lines) - 1) |->
                     reformat_row(read_row(lines[i + 1], ncols), timestamp_col + 1)]
    IN  {<<lines[1]>> \o rows}

order_by_time(lines, timestamp_col) ==
    LET ncols == Len(lines[1])
        rows  == [i \in 1..(Len(lines) - 1) |->
                     reformat_row(read_row(lines[i + 1], ncols), timestamp_col + 1)]
    IN  {<<lines[1]>> \o sorted : sorted \in SortedFrom(rows, timestamp_col + 1, 0)}

----------------------------------------------------------------------------
(* Request signing: get_signature. A string is the sequence of the code     *)
(* points of its characters, a dict the sequence of its <<key, value>>      *)
(* items in insertion order, its keys distinct.                             *)

\* "param2/1/alibaba.dme.lark/"
SIGNATURE_FACTOR_PREFIX ==
    <<112, 97, 114, 97, 109, 50, 47, 49, 47, 97, 108, 105, 98, 97, 98, 97, 46, 100, 109, 101, 46, 108, 97, 114, 107, 47>>

\* YKYRequester.API_NAME, "dme.lark.data.finance.getFinancialData"
API_NAME ==
    <<100, 109, 101, 46, 108, 97, 114, 107, 46, 100, 97, 116, 97, 46, 102, 105, 110, 97, 110, 99, 101, 46, 103, 101, 116, 70, 105, 110, 97, 110, 99, 105, 97, 108, 68, 97, 116, 97>>

\* config.get("APP_KEY") and config.get("SECRET_KEY")
APP_KEY == <<65, 75>>
SECRET_KEY == <<83, 75>>

\* a < b for two str values: by code point, a proper prefix first
StrLess(a, b) ==
    \E i \in 1..(Len(a) + 1) :
        /\ i <= Len(b)
        /\ \A j \in 1..(i - 1) : a[j] = b[j]
        /\ (i > Len(a) \/ a[i] < b[i])

\* the items of a dict without the item at position i
WithoutItem(items, i) ==
    [j \in 1..(Len(items) - 1) |-> IF j < i THEN items[j] ELSE items[j + 1]]

\* sorted(paramaters.items(), key=lambda item: item[0])
sorted_items_insertion_order(items) == items

RECURSIVE sorted_items(_)
sorted_items(items) ==
    IF items = <<>> THEN <<>>
    ELSE LET first == CHOOSE i \in DOMAIN items :
                          \A j \in DOMAIN items : ~StrLess(items[j][1], items[i][1])
         IN  <<items[first]>> \o sorted_items(WithoutItem(items, first))

\* signature_factor_params: key + value of every item, in the order given
RECURSIVE KeyValueConcat(_)
KeyValueConcat(items) ==
    IF items = <<>> THEN <<>>
    ELSE Head(items)[1] \o Head(items)[2] \o KeyValueConcat(Tail(items))

\* get_signature: the string that is signed
signature_string_of(api_name, paramaters, app_key) ==
    SIGNATURE_FACTOR_PREFIX \o api_name \o <<47>> \o app_key
        \o KeyValueConcat(sorted_items(paramaters))

\* hmac.new(key, msg, sha1).hexdigest().upper(): the digest is held as the
\* pair of its key and its message, marked off by the code point 0
hmac_sha1_hexdigest_upper(key, msg) == <<0>> \o key \o <<0>> \o msg

get_signature(api_name, paramaters, app_key, secret_key) ==
    hmac_sha1_hexdigest_upper(secret_key,
                              signature_string_of(api_name, paramaters, app_key))

----------------------------------------------------------------------------
(* The vendor query: _build_query_parameters and the signature item *)

KEY_leaseCode == <<108, 101, 97, 115, 101, 67, 111, 100, 101>>
KEY_cinemaLinkId == <<99, 105, 110, 101, 109, 97, 76, 105, 110, 107, 73, 100>>
KEY_aop_timestamp == <<95, 97, 111, 112, 95, 116, 105, 109, 101, 115, 116, 97, 109, 112>>
KEY_channelCode == <<99, 104, 97, 110, 110, 101, 108, 67, 111, 100, 101>>
KEY_dataType == <<100, 97, 116, 97, 84, 121, 112, 101>>
KEY_searchDateType == <<115, 101, 97, 114, 99, 104, 68, 97, 116, 101, 84, 121, 112, 101>>
KEY_searchDate == <<115, 101, 97, 114, 99, 104, 68, 97, 116, 101>>
KEY_aop_signature == <<95, 97, 111, 112, 95, 115, 105, 103, 110, 97, 116, 117, 114, 101>>

\* config.get("LEASE_CODE"), config.get("CINEMA_LINK_ID"), config.get("CHANNEL_CODE")
LEASE_CODE == <<76, 49>>
CINEMA_LINK_ID == <<55, 55>>
CHANNEL_CODE == <<67, 72>>

\* str(n) of a natural number
RECURSIVE Str(_)
Str(n) == IF n < 10 THEN <<48 + n>> ELSE Str(n \div 10) \o <<48 + (n % 10)>>

\* the text of a date given by its fields: "2025-07-01"
DateText(date) ==
    Str(date[1]) \o Flatten([i \in 1..(Len(date) - 1) |->
                    <<45>> \o (IF date[i + 1] < 10 THEN <<48>> ELSE <<>>)
                          \o Str(date[i + 1])])

\* the text of a category code and of a granularity
CategoryText(category) == IF category = "C01" THEN <<67, 48, 49>> ELSE <<67, 57, 57>>
TimespanText(timespan) ==
    IF timespan = "day" THEN <<100, 97, 121>>
    ELSE IF timespan = "month" THEN <<109, 111, 110, 116, 104>> ELSE <<121, 101, 97, 114>>

\* the value of a key of a dict
DictGet(items, key) ==
    items[CHOOSE i \in DOMAIN items : items[i][1] = key][2]

DictKeys(items) == {items[i][1] : i \in DOMAIN items}

\* d[key] = value: replaces the value of the key, or appends a new item
DictSet(items, key, value) ==
    IF key \in DictKeys(items)
    THEN [i \in DOMAIN items |-> IF items[i][1] = key THEN <<key, value>> ELSE items[i]]
    ELSE Append(items, <<key, value>>)

\* _build_query_parameters with get_timestamp() = timestamp; a value is held
\* as the text str() gives for it
build_query_parameters(financial_category, timespan, search_date, timestamp) ==
    << <<KEY_leaseCode, LEASE_CODE>>,
       <<KEY_cinemaLinkId, CINEMA_LINK_ID>>,
       <<KEY_aop_timestamp, Str(timestamp)>>,
       <<KEY_channelCode, CHANNEL_CODE>>,
       <<KEY_dataType, CategoryText(financial_category)>>,
       <<KEY_searchDateType, TimespanText(timespan)>>,
       <<KEY_searchDate, DateText(search_date)>> >>

\* query_parameters["_aop_signature"] = aop_signature
add_signature_restamped(parameters, aop_signature) ==
    DictSet(DictSet(parameters, KEY_aop_timestamp, <<48>>),
            KEY_aop_signature, aop_signature)

add_signature(parameters, aop_signature) ==
    DictSet(parameters, KEY_aop_signature, aop_signature)

----------------------------------------------------------------------------
(* Decrypter: utility/sha1prng.py, which the requesters import, and the     *)
(* copy sha1prng/sha1prng.py, which src/__main__.py imports. A byte string  *)
(* is the sequence of its bytes.                                            *)

DecrypterModules == {"utility.sha1prng", "sha1prng.sha1prng"}

\* "democs"
DEMOCS == <<100, 101, 109, 111, 99, 115>>

\* hashlib.sha1(data).digest(): 20 bytes that depend on the data alone. A
\* small mixing function stands for SHA-1.
RECURSIVE Mix(_, _)
Mix(data, acc) ==
    IF data = <<>> THEN acc
    ELSE Mix(Tail(data), (acc * 31 + Head(data) + 7) % 65521)

sha1_digest(data) ==
    LET mixed == Mix(data, Len(data) + 1)
    IN  [i \in 1..20 |-> (mixed * (2 * i + 1) + i) % 256]

\* bytes.hex(): two lower-case hexadecimal digits per byte
HexDigit(n) == IF n < 10 THEN 48 + n ELSE 97 + (n - 10)

hex(data) ==
    [i \in 1..(2 * Len(data)) |->
        IF i % 2 = 1 THEN HexDigit(data[(i + 1) \div 2] \div 16)
                     ELSE HexDigit(data[i \div 2] % 16)]

\* bytes.fromhex of a string of hexadecimal digits of either case
HexValue(c) == IF c \in 48..57 THEN c - 48 ELSE IF c \in 65..70 THEN c - 55 ELSE c - 87

fromhex(text) ==
    [i \in 1..(Len(text) \div 2) |-> 16 * HexValue(text[2 * i - 1]) + HexValue(text[2 * i])]

\* str.upper() of ASCII text
upper(text) == [i \in DOMAIN text |-> IF text[i] \in 97..122 THEN text[i] - 32 ELSE text[i]]

\* get_sha1prng_key: sha1(sha1(key.encode())).hex().upper()[:32]; the
\* secret is ASCII, its encoding is its code points
get_sha1prng_key_lower_case(key) ==
    SubSeq(hex(sha1_digest(sha1_digest(key))), 1, 32)

get_sha1prng_key(key) ==
    SubSeq(upper(hex(sha1_digest(sha1_digest(key)))), 1, 32)

\* the characters rstrip is given. utility.sha1prng writes them as a string
\* literal that runs over six lines, so the line breaks and the spaces of
\* the indentation are in it; sha1prng.sha1prng writes them on one line.
STRIPPED_CHARACTERS(module) ==
    IF module = "utility.sha1prng" THEN 0..31 \cup {10, 32} ELSE 0..31

\* str.rstrip(chars)
RECURSIVE rstrip(_, _)
rstrip(text, chars) ==
    IF text # <<>> /\ text[Len(text)] \in chars
    THEN rstrip(SubSeq(text, 1, Len(text) - 1), chars)
    ELSE text

\* _remove_control_characters
remove_control_characters(module, input_str) ==
    rstrip(input_str, STRIPPED_CHARACTERS(module))

\* an encrypted value: the base64 text of the AES-128-ECB encryption of a
\* plaintext under a key, held as that pair
Encrypted(key, plaintext) == [key |-> key, plaintext |-> plaintext]

\* cryptor.decrypt(base64.b64decode(value)): the plaintext under the key of
\* the encryption, bytes that are no ASCII under any other key
aes_ecb_decrypt(key, value) ==
    IF key = value.key THEN value.plaintext ELSE <<200, 17>>

\* bytes.decode(ciphertext, "ASCII") raises UnicodeDecodeError, a ValueError
ascii_decode_raises(data) == \E i \in DOMAIN data : data[i] > 127

NoDecrypter == [module |-> "", key |-> <<>>, sha1prng_key |-> <<>>]
NoValue == [key |-> <<>>, plaintext |-> <<>>]
NoResult == [raises |-> "", returns |-> <<>>]

\* no Decrypter has been built
InitDecrypter ==
    /\ decrypter = NoDecrypter
    /\ derivations = <<>>
    /\ decode_value = NoValue
    /\ decode_key = <<>>
    /\ decode_result = NoResult

----------------------------------------------------------------------------
(* The scheduled daily job: main.py *)

\* job_per_day in the order of its calls: the six upload_data calls of
\* sync_all_yesterday, sync_screening_data, _job_for_cinema_ticket_daily
\* and _message_after_job
JOB_STEPS == <<"C02", "C03", "C04", "C05", "C06", "C07",
               "sync_screening_data", "_job_for_cinema_ticket_daily",
               "_message_after_job">>

\* the report categories of sync_all_yesterday
SYNCED_CATEGORIES == {"C02", "C03", "C04", "C05", "C06", "C07"}

\* the process has not reached scheduler.start()
InitScheduler ==
    /\ scheduler = "initializing"
    /\ job_step = 0
    /\ job_executed = <<>>
    /\ job_failed = "none"
    /\ job_log = <<>>

----------------------------------------------------------------------------
(* FinancialQueries: src/src/config.py *)

NoQueries == [category |-> "", time_spans |-> <<>>, query_dates |-> <<>>, size |-> 0]

\* no FinancialQueries object has been built
InitQueries ==
    /\ queries = NoQueries
    /\ queries_raised = "none"
    /\ queries_accepted = <<>>

\* FinancialQueries.VALID_TIME_SPANS
VALID_TIME_SPANS == {"month", "day"}

\* _is_real_and_valid_date
is_real_and_valid_date(time_span, input_date) ==
    /\ time_span \in VALID_TIME_SPANS
    /\ strptime_parses(input_date, DATE_FORMATS(time_span))

\* to_tuple
to_tuple(q) == [i \in 1..q.size |-> <<q.category, q.time_spans[i], q.query_dates[i]>>]

----------------------------------------------------------------------------
(* The Feishu service and the FeishuClient: src/src/feishu_client.py.       *)
(* The service maps an app token to the sequence of its tables, a table is *)
(* [name, table_id, records], a record [record_id, day]: day is the date   *)
(* of the text in the timestamp column, 0 when the text is not a           *)
(* "%Y-%m-%d %H:%M:%S" timestamp. A CSV file handed to the client is the   *)
(* sequence of its data rows under one header line, a row [line, day]: its *)
(* number in the file and the day of its timestamp.                        *)

\* Python's None
None == "None"

\* a JSON answer without a "data" field
NoJson == [has_data |-> FALSE, has_items |-> FALSE, items |-> <<>>]

\* the result of a find_matching_table call that was not made
NotCalled == [raises |-> "not called", value |-> None]

\* the obj_token get_wiki_obj_token returns for config.get("WIKI_APP_TOKEN")
WIKI_OBJ_TOKEN == "wiki_obj_token"

\* the table ids the service gives to new tables
TableIds == {"tblA", "tblB", "tblC"}

\* delete_records_by_id: the largest number of ids of one batch_delete request
MAX_CHUNK_SIZE == 500

\* read_csv: the largest number of rows of one chunk
max_rows_per_post == 1000

\* the categories config.json has a schema for
SchemaCategories == FINANCIAL_DATA_TYPE_MAP

\* the least element of a set of integers
First(S) == CHOOSE i \in S : \A j \in S : i <= j

\* find_matching_table: json_data is [has_data, has_items, items], an item
\* [name, table_id], where table.get(key) of a missing key is None
find_matching_table(json_data, table_name) ==
    IF table_name = None
    THEN [raises |-> "none", value |-> None]
    ELSE IF ~json_data.has_data \/ ~json_data.has_items
    THEN [raises |-> "KeyError", value |-> None]
    ELSE LET items == json_data.items
             hits  == {i \in DOMAIN items : items[i].name = table_name}
         IN  IF hits = {}
             THEN [raises |-> "none", value |-> None]
             ELSE [raises |-> "none", value |-> items[First(hits)].table_id]

\* get_wiki_all_table_info: the service answers with an HTTP error status
\* for an app token it does not know, and raise_for_status raises
get_wiki_all_table_info(service, wiki_obj_token) ==
    IF wiki_obj_token \notin DOMAIN service
    THEN [raises |-> "httpx.HTTPStatusError",
          value |-> NoJson]
    ELSE [raises |-> "none",
          value |-> [has_data |-> TRUE, has_items |-> TRUE,
                     items |-> [i \in DOMAIN service[wiki_obj_token] |->
                                  [name |-> service[wiki_obj_token][i].name,
                                   table_id |-> service[wiki_obj_token][i].table_id]]]]

\* _initialize_request
initialize_request(service, table_name, wiki_obj_token) ==
    LET token == IF wiki_obj_token = None THEN WIKI_OBJ_TOKEN ELSE wiki_obj_token
        info  == get_wiki_all_table_info(service, token)
        found == find_matching_table(info.value, table_name)
    IN  IF info.raises # "none"
        THEN [raises |-> info.raises, table_id |-> None, wiki_obj_token |-> token]
        ELSE [raises |-> found.raises, table_id |-> found.value,
              wiki_obj_token |-> token]

\* the position of a table in its app
TableIndex(app, table_id) == CHOOSE i \in DOMAIN app : app[i].table_id = table_id

\* the records of a table of the service
RecordsOf(service, token, table_id) ==
    service[token][TableIndex(service[token], table_id)].records

\* the service after the records of one table changed
WithRecords(service, token, table_id, records) ==
    [service EXCEPT ![token][TableIndex(service[token], table_id)].records = records]

\* the records whose record_id is not in gone, in order
RECURSIVE SelectRecords(_, _)
SelectRecords(records, gone) ==
    IF records = <<>> THEN <<>>
    ELSE IF Head(records).record_id \in gone
         THEN SelectRecords(Tail(records), gone)
         ELSE <<Head(records)>> \o SelectRecords(Tail(records), gone)

\* get_table_records: the url is built with table_id even when it is None,
\* and the service answers with an HTTP error status for a table it does
\* not have. A table of the model fits one page of 500 records.
get_table_records(service, table_name, wiki_obj_token) ==
    LET init == initialize_request(service, table_name, wiki_obj_token)
    IN  IF init.raises # "none"
        THEN [raises |-> init.raises, items |-> <<>>]
        ELSE IF init.table_id = None
        THEN [raises |-> "httpx.HTTPStatusError", items |-> <<>>]
        ELSE [raises |-> "none",
              items |-> RecordsOf(service, init.wiki_obj_token, init.table_id)]

\* get_table_records_id_at_head_date: the loop over the first page
RECURSIVE head_date_ids(_, _, _)
head_date_ids(items, i, first_date) ==
    IF i > Len(items) THEN <<>>
    ELSE IF items[i].day = 0 THEN head_date_ids(items, i + 1, first_date)
    ELSE IF items[i].day # first_date THEN <<>>
    ELSE <<items[i].record_id>> \o head_date_ids(items, i + 1, first_date)

\* get_table_records_id_at_head_date
get_table_records_id_at_head_date(service, table_name, wiki_obj_token) ==
    LET init == initialize_request(service, table_name, wiki_obj_token)
        response == get_table_records(service, table_name, init.wiki_obj_token)
    IN  IF init.raises # "none"
        THEN [raises |-> init.raises, ids |-> <<>>]
        ELSE IF response.raises # "none"
        THEN [raises |-> response.raises, ids |-> <<>>]
        ELSE IF response.items = <<>> \/ response.items[1].day = 0
        THEN [raises |-> "none", ids |-> <<>>]
        ELSE [raises |-> "none",
              ids |-> head_date_ids(response.items, 1, response.items[1].day)]

\* delete_records_by_id: can_send of one iteration, without chunking
can_send_everything(length, already_sent) == length - already_sent

\* delete_records_by_id: can_send of one iteration
can_send(length, already_sent) ==
    IF length - already_sent < MAX_CHUNK_SIZE
    THEN length - already_sent
    ELSE MAX_CHUNK_SIZE

\* delete_records_by_id: its while loop from already_sent on; codes[k] is
\* the code of the k-th response, and the request for a table the service
\* does not have is answered with an HTTP error status
RECURSIVE batch_delete_loop(_, _, _, _, _)
batch_delete_loop(ids_to_delete, already_sent, table_id, codes, k) ==
    IF already_sent >= Len(ids_to_delete)
    THEN [sent |-> <<>>, raises |-> "none"]
    ELSE LET n == can_send(Len(ids_to_delete), already_sent)
             request_body == SubSeq(ids_to_delete, already_sent + 1, already_sent + n)
         IN  IF table_id = None
             THEN [sent |-> <<request_body>>, raises |-> "httpx.HTTPStatusError"]
             ELSE IF codes[k] # 0
             THEN [sent |-> <<request_body>>, raises |-> "Exception"]
             ELSE LET rest == batch_delete_loop(ids_to_delete, already_sent + n,
                                                table_id, codes, k + 1)
                  IN  [sent |-> <<request_body>> \o rest.sent, raises |-> rest.raises]

\* delete_records_by_id: what it raises, the request bodies it sent and the
\* service after them. print(result) after a loop of no iteration reads a
\* local variable that was never assigned.
delete_records_by_id(service, table_name, ids_to_delete, wiki_obj_token, codes) ==
    LET init == initialize_request(service, table_name, wiki_obj_token)
        loop == batch_delete_loop(ids_to_delete, 0, init.table_id, codes, 1)
        accepted == IF loop.raises = "none" THEN loop.sent
                    ELSE SubSeq(loop.sent, 1, Len(loop.sent) - 1)
    IN  IF init.raises # "none"
        THEN [raises |-> init.raises, sent |-> <<>>, service |-> service]
        ELSE [raises |-> IF loop.raises # "none" THEN loop.raises
                         ELSE IF loop.sent = <<>> THEN "UnboundLocalError"
                         ELSE "none",
              sent |-> loop.sent,
              service |-> IF accepted = <<>> THEN service
                          ELSE WithRecords(service, init.wiki_obj_token, init.table_id,
                                   SelectRecords(
                                       RecordsOf(service, init.wiki_obj_token,
                                                 init.table_id),
                                       Range(Flatten(accepted))))]

\* read_csv: the chunks of at most max_rows_per_post rows; a chunk is a list
\* of one record whose "fields" is the list of the row dicts of the chunk
RECURSIVE read_csv_loop(_, _)
read_csv_loop(data_dict, current_entry_ptr) ==
    IF current_entry_ptr >= Len(data_dict) THEN <<>>
    ELSE LET total_rows == Len(data_dict)
             chunk_size == IF total_rows - current_entry_ptr > max_rows_per_post
                           THEN max_rows_per_post
                           ELSE total_rows - current_entry_ptr
             records == <<[fields_type |-> "list",
                           fields |-> SubSeq(data_dict, current_entry_ptr + 1,
                                             current_entry_ptr + chunk_size)]>>
         IN  <<records>> \o read_csv_loop(data_dict, current_entry_ptr + max_rows_per_post)

\* read_csv of a file of the given data rows
read_csv(rows) == read_csv_loop(rows, 0)

\* create_new_table: config.get_columns raises for a category without a
\* schema; the service refuses with a non-zero code, or makes the table
create_new_table(service, wiki_obj_token, file_name, financial_category, code) ==
    LET used == {service[wiki_obj_token][i].table_id : i \in DOMAIN service[wiki_obj_token]}
        table_id == CHOOSE id \in TableIds : id \notin used
    IN  IF financial_category \notin SchemaCategories
        THEN [raises |-> "KeyError", table_id |-> None, service |-> service]
        ELSE IF code # 0 \/ TableIds \subseteq used
        THEN [raises |-> "Exception", table_id |-> None, service |-> service]
        ELSE [raises |-> "none", table_id |-> table_id,
              service |-> [service EXCEPT ![wiki_obj_token] =
                              Append(@, [name |-> file_name, table_id |-> table_id,
                                         records |-> <<>>])]]

\* post_csv_data_to_feishu: the batch_create requests from chunk k on; the
\* service makes one record of each member of "records", and a record whose
\* "fields" is a list has no text in the timestamp column
RECURSIVE batch_create_loop(_, _, _, _)
batch_create_loop(request_bodies, k, codes, next_id) ==
    IF k > Len(request_bodies)
    THEN [sent |-> <<>>, raises |-> "none", records |-> <<>>]
    ELSE IF codes[k] # 0
    THEN [sent |-> <<request_bodies[k]>>, raises |-> "Exception", records |-> <<>>]
    ELSE LET made == [i \in DOMAIN request_bodies[k] |->
                         [record_id |-> next_id + i - 1, day |-> 0]]
             rest == batch_create_loop(request_bodies, k + 1, codes,
                                       next_id + Len(request_bodies[k]))
         IN  [sent |-> <<request_bodies[k]>> \o rest.sent, raises |-> rest.raises,
              records |-> made \o rest.records]

\* post_csv_data_to_feishu, its finally clause included: os.remove of the
\* file unless the removal fails, which is logged
post_csv_data_to_feishu(service, files, next_id, path, wiki_obj_token, table_name, financial_category, create_code, codes, remove_fails) ==
    LET init == initialize_request(service, table_name, wiki_obj_token)
        made == IF init.raises = "none" /\ init.table_id = None
                THEN create_new_table(service, init.wiki_obj_token, table_name,
                                      financial_category, create_code)
                ELSE [raises |-> init.raises, table_id |-> init.table_id,
                      service |-> service]
        request_bodies == IF path \in DOMAIN files THEN read_csv(files[path]) ELSE <<>>
        loop == batch_create_loop(request_bodies, 1, codes, next_id)
        left == IF remove_fails THEN files ELSE Remove(files, {path})
    IN  IF made.raises # "none"
        THEN [raises |-> made.raises, outcome |-> "raised", sent |-> <<>>,
              service |-> made.service, next_id |-> next_id, files |-> left]
        ELSE IF path \notin DOMAIN files
        THEN [raises |-> "FileNotFoundError", outcome |-> "raised", sent |-> <<>>,
              service |-> made.service, next_id |-> next_id, files |-> left]
        ELSE IF request_bodies = <<>>
        THEN [raises |-> "none", outcome |-> "returned early", sent |-> <<>>,
              service |-> made.service, next_id |-> next_id, files |-> left]
        ELSE [raises |-> loop.raises,
              outcome |-> IF loop.raises = "none" THEN "returned" ELSE "raised",
              sent |-> loop.sent,
              service |-> WithRecords(made.service, init.wiki_obj_token, made.table_id,
                              RecordsOf(made.service, init.wiki_obj_token,
                                        made.table_id) \o loop.records),
              next_id |-> next_id + Len(loop.records),
              files |-> left]

\* the path upload_data writes the merged CSV of a category to:
\* <category_folder>/<category_folder>.csv
UploadPath(financial_category) ==
    [kind |-> "upload", category |-> financial_category, date |-> <<>>, part |-> 0]

\* upload_data after the vendor's rows were fetched and merged: it writes
\* the CSV and calls post_csv_data_to_feishu(path, table_name,
\* financial_category, wiki_obj_token) by position
upload_data(service, files, next_id, financial_category, rows, table_name, create_code, codes, remove_fails) ==
    IF table_name = ""
    THEN [raises |-> "ValueError", outcome |-> "raised", sent |-> <<>>,
          service |-> service, next_id |-> next_id, files |-> files]
    ELSE post_csv_data_to_feishu(service,
                                 Write(files, UploadPath(financial_category), rows),
                                 next_id, UploadPath(financial_category),
                                 table_name, financial_category, WIKI_OBJ_TOKEN,
                                 create_code, codes, remove_fails)

\* sync_most_recent_data with wiki_obj_token left None
sync_most_recent_data(service, files, next_id, financial_category, table_name, rows, delete_codes, create_code, codes, remove_fails) ==
    LET after_upload(head, deleted, uploaded) ==
            IF financial_category = "" \/ table_name = ""
            THEN [raises |-> "ValueError", service |-> service, next_id |-> next_id,
                  files |-> files, sent |-> <<>>]
            ELSE IF head.raises # "none"
            THEN [raises |-> head.raises, service |-> service, next_id |-> next_id,
                  files |-> files, sent |-> <<>>]
            ELSE IF deleted.raises # "none"
            THEN [raises |-> deleted.raises, service |-> deleted.service,
                  next_id |-> next_id, files |-> files, sent |-> deleted.sent]
            ELSE [raises |-> uploaded.raises, service |-> uploaded.service,
                  next_id |-> uploaded.next_id, files |-> uploaded.files,
                  sent |-> deleted.sent]
        after_delete(head, deleted) ==
            after_upload(head, deleted,
                   upload_data(deleted.service, files, next_id, financial_category,
                               rows, table_name, create_code, codes, remove_fails))
        after_head(head) ==
            after_delete(head, delete_records_by_id(service, table_name, head.ids,
                                              WIKI_OBJ_TOKEN, delete_codes))
    IN  after_head(get_table_records_id_at_head_date(service, table_name, WIKI_OBJ_TOKEN))

\* no FeishuClient call was made: an app without tables
InitFeishu ==
    /\ feishu_service = [t \in {WIKI_OBJ_TOKEN} |-> <<>>]
    /\ feishu_next_id = 1
    /\ csv_files = NoFiles
    /\ feishu_requests = <<>>
    /\ feishu_raised = "none"
    /\ feishu_done = <<>>

\* find_matching_table was not called
InitFind ==
    /\ find_json_data = NoJson
    /\ find_table_name = None
    /\ find_result = NotCalled

\* scheduler.start() was not reached: no trigger fired, nothing runs
InitJobs ==
    /\ fired_at = -1
    /\ executions = <<>>

----------------------------------------------------------------------------
(* The state outside a get_financial_data call, before anything has run *)

InitOutsideCall ==
    /\ InitDecrypter
    /\ InitScheduler
    /\ InitQueries
    /\ InitFeishu
    /\ InitFind
    /\ InitJobs

----------------------------------------------------------------------------
(* The vendor and the network *)

\* an encrypted link: Decrypter.decode yields a URL, or raises ValueError
\* (bad base64, a length that is no multiple of 16, or non-ASCII plaintext)
Links == {"link", "corrupt"}

decode_raises(secret_url) == secret_url = "corrupt"

LinkLists == UNION {[1..n -> Links] : n \in 0..MaxLinks}

\* the JSON envelope: data.bizData.downloadUrlList is missing, null or a list
Envelopes ==
    {[kind |-> k, urls |-> <<>>] : k \in {"absent", "null"}}
        \cup {[kind |-> "list", urls |-> u] : u \in LinkLists}

NoEnvelope == [kind |-> "none", urls |-> <<>>]

\* the texts a shard URL serves
ShardBodies ==
    { <<>>,
      << <<"Not Found">> >>,
      << <<"report">>, <<"time", "amount">> >>,
      << <<"report">>, <<"time", "amount">>, <<T2, "5">>, <<"#total", "5">> >>,
      << <<"report">>, <<"time", "amount">>, <<T1, "7">>, <<"n/a", "1">> >>,
      << <<"#report">>, <<"time", "amount">>, <<T1, "7">> >>,
      << <<"report">>, <<"time">>, <<T2>> >> }

\* the response of a shard URL: its status, whether its bytes are valid GBK,
\* and its text
Responses ==
    {[status |-> s, gbk |-> FALSE, text |-> <<>>] : s \in {200, 404}}
        \cup {[status |-> s, gbk |-> TRUE, text |-> b] :
                 s \in {200, 404}, b \in ShardBodies}

\* the value of a call that has not returned, and the empty string it returns
\* when there is nothing to download
NotReturned == [kind |-> "none", category |-> "", date |-> <<>>, part |-> 0]
EmptyString == [kind |-> "", category |-> "", date |-> <<>>, part |-> 0]

\* _fetch_download_urls after response.json(): the exception it raises and
\* the list it returns
fetch_download_urls_raises_on_empty(envelope) ==
    IF envelope.kind = "absent" \/ envelope.urls = <<>>
    THEN [raises |-> "KeyError", urls |-> <<>>]
    ELSE [raises |-> "none", urls |-> envelope.urls]

fetch_download_urls(envelope) ==
    IF envelope.kind = "absent"
    THEN [raises |-> "KeyError", urls |-> <<>>]
    ELSE IF envelope.kind = "null" \/ envelope.urls = <<>>
    THEN [raises |-> "none", urls |-> <<>>]
    ELSE [raises |-> "none", urls |-> envelope.urls]

----------------------------------------------------------------------------
(* The state machine of one get_financial_data call *)

\* no get_financial_data call was made
InitCall ==
    /\ pc = "idle"
    /\ entries = <<"", "", <<>>>>
    /\ timestamp_column \in {0, 1}
    /\ vendor_response = NoEnvelope
    /\ download_url_list = <<>>
    /\ file_id = 0
    /\ file_path_stack = <<>>
    /\ file_name_stack = <<>>
    /\ disk = NoFiles
    /\ created = {}
    /\ shard_text = <<>>
    /\ http_log = <<>>
    /\ error = "none"
    /\ raised_in = "none"
    /\ result = NotReturned
    /\ clock = 1
    /\ query_parameters = <<>>
    /\ signed_parameters = <<>>
    /\ signature_string = <<>>
    /\ sent_requests = <<>>

Init ==
    /\ InitCall
    /\ InitOutsideCall

Raise(e, stage) ==
    /\ pc' = "raised"
    /\ error' = e
    /\ raised_in' = stage

\* an entry of the request log that names the link before
Request_previous_link(kind, link, status) ==
    [kind |-> kind, link |-> IF link > 1 THEN link - 1 ELSE link, status |-> status]

\* an entry of the request log
Request(kind, link, status) == [kind |-> kind, link |-> link, status |-> status]

\* get_financial_data up to the signature: _validate_inputs, and
\* _build_query_parameters, which reads the clock
Validating ==
    /\ UNCHANGED OutsideCall
    /\ pc = "idle"
    /\ \E c \in QueryCategories, t \in QueryTimespans, d \in QueryDates :
        /\ entries' = <<c, t, d>>
        /\ IF validate_inputs(c, t, d) # "none"
           THEN /\ Raise(validate_inputs(c, t, d), "Validating")
                /\ UNCHANGED <<clock, query_parameters>>
           ELSE /\ pc' = "signing"
                /\ \E now \in clock..MaxClock :
                    /\ clock' = now
                    /\ query_parameters' = build_query_parameters(c, t, d, now)
                /\ UNCHANGED <<error, raised_in>>
    /\ UNCHANGED <<timestamp_column, vendor_response, download_url_list, file_id,
                   file_path_stack, file_name_stack, disk, created, shard_text,
                   http_log, result, signed_parameters, signature_string,
                   sent_requests>>

\* _generate_signature and the assignment of the _aop_signature item
Signing ==
    /\ UNCHANGED OutsideCall
    /\ pc = "signing"
    /\ signed_parameters' = query_parameters
    /\ signature_string' = signature_string_of(API_NAME, query_parameters, APP_KEY)
    /\ query_parameters' =
           add_signature(query_parameters,
                         get_signature(API_NAME, query_parameters, APP_KEY, SECRET_KEY))
    /\ pc' = "requesting"
    /\ UNCHANGED <<entries, timestamp_column, vendor_response, download_url_list,
                   file_id, file_path_stack, file_name_stack, disk, created,
                   shard_text, http_log, error, raised_in, result, clock,
                   sent_requests>>

\* _fetch_download_urls: make_request raises on a transport error
RequestingTransportError ==
    /\ UNCHANGED OutsideCall
    /\ pc = "requesting"
    /\ http_log' = Append(http_log, Request("vendor", 0, 0))
    /\ Raise("httpx.TransportError", "Requesting")
    /\ sent_requests' = Append(sent_requests, query_parameters)
    /\ UNCHANGED <<entries, timestamp_column, vendor_response, download_url_list,
                   file_id, file_path_stack, file_name_stack, disk, created,
                   shard_text, result, clock, query_parameters, signed_parameters,
                   signature_string>>

\* _fetch_download_urls: raise_for_status raises on a non-2xx status
RequestingStatusError ==
    /\ UNCHANGED OutsideCall
    /\ pc = "requesting"
    /\ http_log' = Append(http_log, Request("vendor", 0, 500))
    /\ Raise("httpx.HTTPStatusError", "Requesting")
    /\ sent_requests' = Append(sent_requests, query_parameters)
    /\ UNCHANGED <<entries, timestamp_column, vendor_response, download_url_list,
                   file_id, file_path_stack, file_name_stack, disk, created,
                   shard_text, result, clock, query_parameters, signed_parameters,
                   signature_string>>

\* _fetch_download_urls on a 2xx response, and the empty-list return of
\* get_financial_data
ExtractingLinks ==
    /\ UNCHANGED OutsideCall
    /\ pc = "requesting"
    /\ \E envelope \in Envelopes :
        LET got == fetch_download_urls(envelope) IN
        /\ vendor_response' = envelope
        /\ http_log' = Append(http_log, Request("vendor", 0, 200))
        /\ IF got.raises # "none"
           THEN /\ Raise(got.raises, "ExtractingLinks")
                /\ UNCHANGED <<download_url_list, result>>
           ELSE IF got.urls = <<>>
           THEN /\ pc' = "returned"
                /\ result' = EmptyString
                /\ UNCHANGED <<download_url_list, error, raised_in>>
           ELSE /\ pc' = "downloading"
                /\ download_url_list' = got.urls
                /\ UNCHANGED <<result, error, raised_in>>
    /\ sent_requests' = Append(sent_requests, query_parameters)
    /\ UNCHANGED <<entries, timestamp_column, file_id, file_path_stack,
                   file_name_stack, disk, created, shard_text, clock,
                   query_parameters, signed_parameters, signature_string>>

----------------------------------------------------------------------------
(* download_urls: one iteration of its loop per action. Every failure ends  *)
(* the call: the exception passes through the handler of                    *)
(* _process_downloaded_data, which runs _cleanup_on_error(file_name_stack)  *)
(* with file_name_stack still empty, and reaches the caller.                *)

CurrentLink == download_url_list[file_id + 1]

CurrentShard == ShardName(entries[1], entries[3], file_id)

DownloadUnchanged == <<entries, timestamp_column, vendor_response, download_url_list,
                       file_id, file_name_stack, shard_text, result, clock,
                       query_parameters, signed_parameters, signature_string,
                       sent_requests>>

\* decrypter.decode(secret_url) raises: ValueError is not an httpx.HTTPError
DownloadDecodeFails ==
    /\ UNCHANGED OutsideCall
    /\ pc = "downloading"
    /\ decode_raises(CurrentLink)
    /\ disk' = cleanup_on_error(disk, file_name_stack)
    /\ Raise("ValueError", "Downloading")
    /\ UNCHANGED <<file_path_stack, created, http_log>>
    /\ UNCHANGED DownloadUnchanged

\* httpx.get raises httpx.HTTPError: clear_files, then DataFetchException
DownloadHttpError ==
    /\ UNCHANGED OutsideCall
    /\ pc = "downloading"
    /\ ~decode_raises(CurrentLink)
    /\ http_log' = Append(http_log, Request("shard", file_id + 1, 0))
    /\ disk' = cleanup_on_error(clear_files(disk, file_path_stack), file_name_stack)
    /\ file_path_stack' = <<>>
    /\ Raise("DataFetchException", "Downloading")
    /\ UNCHANGED created
    /\ UNCHANGED DownloadUnchanged

\* data_response.content.decode('gbk') raises UnicodeDecodeError, outside
\* the try blocks of download_urls
DownloadTranscodeFails ==
    /\ UNCHANGED OutsideCall
    /\ pc = "downloading"
    /\ ~decode_raises(CurrentLink)
    /\ \E r \in Responses :
        /\ ~r.gbk
        /\ http_log' = Append(http_log, Request("shard", file_id + 1, r.status))
    /\ disk' = cleanup_on_error(disk, file_name_stack)
    /\ Raise("UnicodeDecodeError", "Downloading")
    /\ UNCHANGED <<file_path_stack, created>>
    /\ UNCHANGED DownloadUnchanged

\* open(filename, "wb") raises OSError: nothing is created
DownloadOpenFails ==
    /\ UNCHANGED OutsideCall
    /\ pc = "downloading"
    /\ ~decode_raises(CurrentLink)
    /\ \E r \in Responses :
        /\ r.gbk
        /\ http_log' = Append(http_log, Request("shard", file_id + 1, r.status))
    /\ disk' = cleanup_on_error(clear_files(disk, file_path_stack), file_name_stack)
    /\ file_path_stack' = <<>>
    /\ Raise("DataFetchException", "Downloading")
    /\ UNCHANGED created
    /\ UNCHANGED DownloadUnchanged

\* f.write(utf8_content) raises OSError: the file exists with a part of the
\* text and is not yet on file_path_stack
DownloadWriteFails ==
    /\ UNCHANGED OutsideCall
    /\ pc = "downloading"
    /\ ~decode_raises(CurrentLink)
    /\ \E r \in Responses :
        /\ r.gbk
        /\ http_log' = Append(http_log, Request("shard", file_id + 1, r.status))
        /\ \E n \in 0..Len(r.text) :
            /\ n < Len(r.text) \/ n = 0
            /\ disk' = cleanup_on_error(
                           clear_files(Write(disk, CurrentShard, SubSeq(r.text, 1, n)),
                                       file_path_stack),
                           file_name_stack)
    /\ created' = created \cup {CurrentShard}
    /\ file_path_stack' = <<>>
    /\ Raise("DataFetchException", "Downloading")
    /\ UNCHANGED DownloadUnchanged

\* the shard is written whatever the status of the response is: httpx.get
\* does not raise on a non-2xx status. After the last link download_urls
\* returns and file_name_stack is assigned.
DownloadShard ==
    /\ UNCHANGED OutsideCall
    /\ pc = "downloading"
    /\ ~decode_raises(CurrentLink)
    /\ \E r \in Responses :
        /\ r.gbk
        /\ http_log' = Append(http_log, Request("shard", file_id + 1, r.status))
        /\ disk' = Write(disk, CurrentShard, r.text)
        /\ shard_text' = Append(shard_text, r.text)
    /\ created' = created \cup {CurrentShard}
    /\ file_path_stack' = Append(file_path_stack, CurrentShard)
    /\ file_id' = file_id + 1
    /\ IF file_id + 1 = Len(download_url_list)
       THEN /\ pc' = "merging"
            /\ file_name_stack' = Append(file_path_stack, CurrentShard)
       ELSE UNCHANGED <<pc, file_name_stack>>
    /\ UNCHANGED <<entries, timestamp_column, vendor_response, download_url_list,
                   error, raised_in, result, clock, query_parameters,
                   signed_parameters, signature_string, sent_requests>>

----------------------------------------------------------------------------
(* combine_data_files and order_by_time inside _process_downloaded_data *)

OutputCsv == OutputPath(entries[1], entries[3])

\* the texts of the files of file_paths, as get_filtered_lines reads them
ShardTexts == [i \in DOMAIN file_name_stack |-> disk[file_name_stack[i]]]

\* combine_data_files(file_name_stack, category, search_date, True): the
\* output file is opened (created empty) before the first shard is checked
Merging ==
    /\ UNCHANGED OutsideCall
    /\ pc = "merging"
    /\ IF file_name_stack = <<>>
       THEN /\ pc' = "returned"
            /\ result' = EmptyString
            /\ UNCHANGED <<disk, created, error, raised_in>>
       ELSE IF combine_rejects(ShardTexts)
       THEN /\ created' = created \cup {OutputCsv}
            /\ disk' = cleanup_on_error(Write(disk, OutputCsv, <<>>), file_name_stack)
            /\ Raise("ValueError", "Merging")
            /\ UNCHANGED result
       ELSE /\ created' = created \cup {OutputCsv}
            /\ disk' = Remove(Write(disk, OutputCsv, combine_lines(ShardTexts)),
                              Range(file_name_stack))
            /\ pc' = "ordering"
            /\ UNCHANGED <<error, raised_in, result>>
    /\ UNCHANGED <<entries, timestamp_column, vendor_response, download_url_list,
                   file_id, file_path_stack, file_name_stack, shard_text, http_log,
                   clock, query_parameters, signed_parameters, signature_string,
                   sent_requests>>

\* order_by_time(output_csv, timestamp_column) and the return of the path
Ordering ==
    /\ UNCHANGED OutsideCall
    /\ pc = "ordering"
    /\ IF order_raises(disk[OutputCsv], timestamp_column)
       THEN /\ disk' = cleanup_on_error(disk, file_name_stack)
            /\ Raise("IndexError", "Ordering")
            /\ UNCHANGED result
       ELSE /\ \E sorted \in order_by_time(disk[OutputCsv], timestamp_column) :
                disk' = Write(disk, OutputCsv, sorted)
            /\ pc' = "returned"
            /\ result' = OutputCsv
            /\ UNCHANGED <<error, raised_in>>
    /\ UNCHANGED <<entries, timestamp_column, vendor_response, download_url_list,
                   file_id, file_path_stack, file_name_stack, created, shard_text,
                   http_log, clock, query_parameters, signed_parameters,
                   signature_string, sent_requests>>

Next ==
    \/ Validating
    \/ Signing
    \/ RequestingTransportError
    \/ RequestingStatusError
    \/ ExtractingLinks
    \/ DownloadDecodeFails
    \/ DownloadHttpError
    \/ DownloadTranscodeFails
    \/ DownloadOpenFails
    \/ DownloadWriteFails
    \/ DownloadShard
    \/ Merging
    \/ Ordering

Spec == Init /\ [][Next]_vars

----------------------------------------------------------------------------
(* Properties of one get_financial_data call *)

\* the files this call created that are on the disk
CreatedOnDisk == created \cap DOMAIN disk

\* the shard files this call created that are on the disk
ShardsLeft == {n \in CreatedOnDisk : n.kind = "shard"}

\* the requests for shard URLs this call issued
ShardRequests == {i \in DOMAIN http_log : http_log[i].kind = "shard"}

\* the typed input errors of utility/exceptions.py
InputErrors == {"InvalidFinancialCategoryException", "InvalidTimespanException"}

\* C1: a query whose category is not in the catalog raises the
\* invalid-category error in the validating stage, before any HTTP request:
\* no vendor query, no shard download, no file created.
C1_InvalidCategoryRaisesBeforeHttp ==
    (pc # "idle" /\ entries[1] \notin FINANCIAL_DATA_TYPE_MAP)
        => /\ pc = "raised"
           /\ error = "InvalidFinancialCategoryException"
           /\ raised_in = "Validating"
           /\ http_log = <<>>
           /\ created = {}
           /\ disk = NoFiles

\* the call was made with category "C99" and has raised
C1_Witness ==
    /\ pc = "raised"
    /\ entries[1] = "C99"
    /\ entries[2] = "day"
    /\ entries[3] = <<2025, 7, 1>>

\* C2: whenever the call raises in the downloading stage, for any reason, no
\* shard file this call created is left on the disk.
C2_NoShardSurvivesDownloadError ==
    (pc = "raised" /\ raised_in = "Downloading") => ShardsLeft = {}

\* C3: when the HTTP fetch of the k-th link fails with a transport error, all
\* shards written before are deleted and the caller gets DataFetchException.
C3_TransportErrorClearsShards ==
    (/\ pc = "raised"
     /\ raised_in = "Downloading"
     /\ http_log[Len(http_log)] = Request("shard", file_id + 1, 0))
        => /\ error = "DataFetchException"
           /\ ShardsLeft = {}

\* the fetch of the second link failed after the first shard was written
C3_Witness ==
    /\ pc = "raised"
    /\ raised_in = "Downloading"
    /\ http_log[Len(http_log)] = Request("shard", 2, 0)
    /\ file_id = 1
    /\ created = {ShardName(entries[1], entries[3], 0)}

\* C4: when merging or ordering fails after the shards were downloaded, no
\* file this call created is left: neither a shard nor the merged output.
C4_NoFileSurvivesMergeError ==
    (pc = "raised" /\ raised_in \in {"Merging", "Ordering"}) => CreatedOnDisk = {}

\* C5: a query whose granularity is day or month and whose date parses under
\* the format of that granularity passes the validating stage.
C5_DateCheckedAgainstOwnGranularity ==
    (/\ pc # "idle"
     /\ entries[1] \in FINANCIAL_DATA_TYPE_MAP
     /\ entries[2] \in VALID_TIMESPANS
     /\ strptime_parses(entries[3], DATE_FORMATS(entries[2])))
        => raised_in # "Validating"

\* C6: a query whose granularity is not day or month, or whose date does not
\* parse under the format of its granularity, fails in the validating stage
\* with a typed input error and without any network call.
C6_BadGranularityOrDateIsInputError ==
    (/\ pc # "idle"
     /\ \/ entries[2] \notin VALID_TIMESPANS
        \/ ~strptime_parses(entries[3], DATE_FORMATS(entries[2])))
        => /\ pc = "raised"
           /\ raised_in = "Validating"
           /\ error \in InputErrors
           /\ http_log = <<>>

\* the call returned the empty string, without an error, a shard request or
\* a file
ReturnedEmpty ==
    /\ pc = "returned"
    /\ result = EmptyString
    /\ error = "none"
    /\ ShardRequests = {}
    /\ created = {}

C8_Non2xxShardIsFetchError ==
    \A i \in ShardRequests :
        (http_log[i].status # 0 /\ http_log[i].status \notin 200..299)
            => /\ pc = "raised"
               /\ error = "DataFetchException"
               /\ ShardsLeft = {}

----------------------------------------------------------------------------
(* combine_data_files on its own: every list of 1..MaxLinks downloaded      *)
(* shards of up to MaxShardLines lines, any of them comment lines. Each     *)
(* line carries the shard and the row it comes from.                        *)

ShardTags == <<"s1", "s2", "s3", "s4">>
RowTags == <<"r1", "r2", "r3", "r4", "r5">>

TaggedLine(i, j, hash) ==
    IF hash THEN <<"#", ShardTags[i], RowTags[j]>> ELSE <<ShardTags[i], RowTags[j]>>

TaggedShard(i, n, marks) == [j \in 1..n |-> TaggedLine(i, j, j \in marks)]

InitCombine ==
    /\ pc = "merging"
    /\ entries = <<"C01", "day", <<2025, 7, 1>>>>
    /\ timestamp_column = 0
    /\ \E n \in 1..MaxLinks :
        \E len \in [1..n -> 0..MaxShardLines],
           marks \in [1..n -> SUBSET (1..MaxShardLines)] :
            /\ \A i \in 1..n : marks[i] \subseteq 1..len[i]
            /\ download_url_list = [i \in 1..n |-> "link"]
            /\ vendor_response = [kind |-> "list", urls |-> [i \in 1..n |-> "link"]]
            /\ file_id = n
            /\ file_path_stack = [i \in 1..n |-> ShardName("C01", <<2025, 7, 1>>, i - 1)]
            /\ file_name_stack = [i \in 1..n |-> ShardName("C01", <<2025, 7, 1>>, i - 1)]
            /\ created = {ShardName("C01", <<2025, 7, 1>>, i - 1) : i \in 1..n}
            /\ shard_text = [i \in 1..n |-> TaggedShard(i, len[i], marks[i])]
            /\ disk = [name \in {ShardName("C01", <<2025, 7, 1>>, i - 1) : i \in 1..n} |->
                          TaggedShard(name.part + 1, len[name.part + 1],
                                      marks[name.part + 1])]
            /\ http_log = <<Request("vendor", 0, 200)>>
                              \o [i \in 1..n |-> Request("shard", i, 200)]
    /\ error = "none"
    /\ raised_in = "none"
    /\ result = NotReturned
    /\ clock = 1
    /\ \E aop_signed \in {add_signature(
                               build_query_parameters("C01", "day", <<2025, 7, 1>>, 1),
                               get_signature(API_NAME,
                                   build_query_parameters("C01", "day", <<2025, 7, 1>>, 1),
                                   APP_KEY, SECRET_KEY))} :
        /\ query_parameters = aop_signed
        /\ sent_requests = <<aop_signed>>
    /\ signed_parameters = build_query_parameters("C01", "day", <<2025, 7, 1>>, 1)
    /\ signature_string =
           signature_string_of(API_NAME, signed_parameters, APP_KEY)
    /\ InitOutsideCall

SpecCombine == InitCombine /\ [][Merging]_vars

\* the lines of a shard that are no comment lines, in order
RECURSIVE NonComment(_)
NonComment(lines) ==
    IF lines = <<>> THEN <<>>
    ELSE IF Head(lines) # <<>> /\ Head(lines)[1] \in HashCells
    THEN NonComment(Tail(lines))
    ELSE <<Head(lines)>> \o NonComment(Tail(lines))

\* the lines of a shard after its first two physical lines
AfterPair(lines) == [j \in 1..(Len(lines) - 2) |-> lines[j + 2]]

DataCount(i) ==
    IF Len(NonComment(shard_text[i])) > 2 THEN Len(NonComment(shard_text[i])) - 2 ELSE 0

\* the position in the merged file of the last line before the data of shard i
RECURSIVE DataOffset(_)
DataOffset(i) == IF i = 1 THEN 1 ELSE DataOffset(i - 1) + DataCount(i - 1)

C10_AnyShortShardIsFatal ==
    (pc # "merging" /\ \E i \in DOMAIN shard_text : Len(shard_text[i]) < 2)
        => (pc = "raised" /\ error = "ValueError")

----------------------------------------------------------------------------
(* order_by_time inside a successful call *)

\* the merged file as combine_data_files wrote it, before order_by_time
MergedBeforeOrdering == combine_lines(shard_text)

\* the parsed timestamp of line i of a report with a header line
TimestampOf(lines, i) ==
    strptime_datetime(read_row(lines[i], Len(lines[1]))[timestamp_column + 1])

\* the data lines of a report whose timestamp parses to k
LinesOfRank(lines, k) == {i \in 2..Len(lines) : TimestampOf(lines, i) = k}

\* order_by_time was called: it returned or it raised
OrderingDone ==
    \/ (pc = "returned" /\ result = OutputCsv)
    \/ (pc = "raised" /\ raised_in = "Ordering")

C12_SuccessLeavesOnlyMergedReport ==
    (pc = "returned" /\ download_url_list # <<>>)
        => /\ ShardsLeft = {}
           /\ \A i \in 0..(Len(download_url_list) - 1) :
                  /\ ShardName(entries[1], entries[3], i) \in created
                  /\ ShardName(entries[1], entries[3], i) \notin DOMAIN disk
           /\ result = OutputCsv
           /\ OutputCsv \in DOMAIN disk
           /\ error = "none"

\* a call with two links returned after both shards were written
C12_Witness ==
    /\ pc = "returned"
    /\ Len(download_url_list) = 2
    /\ Len(shard_text) = 2
    /\ Cardinality(created) = 3

\* f.write of the current shard raised after open had created the file
ShardWriteFailed ==
    /\ pc = "raised"
    /\ raised_in = "Downloading"
    /\ CurrentShard \in created

\* C13: a file I/O error while writing a shard reaches the caller as an
\* error of a category other than the fetch error of a network failure.
C13_ShardWriteErrorIsNotFetchError ==
    ShardWriteFailed => error # "DataFetchException"

----------------------------------------------------------------------------
(* get_signature on its own: every dict of up to MaxParams items, in every  *)
(* insertion order, with keys "a", "b", "ab", "B" and values "1", "2".      *)

SignKeys == {<<97>>, <<98>>, <<97, 98>>, <<66>>}
SignValues == {<<49>>, <<50>>}

SignDicts ==
    {d \in UNION {[1..n -> SignKeys \X SignValues] : n \in 0..MaxParams} :
        \A i \in DOMAIN d : \A j \in DOMAIN d : d[i][1] = d[j][1] => i = j}

InitSign ==
    /\ pc = "signing"
    /\ entries = <<"C01", "day", <<2025, 7, 1>>>>
    /\ timestamp_column = 0
    /\ vendor_response = NoEnvelope
    /\ download_url_list = <<>>
    /\ file_id = 0
    /\ file_path_stack = <<>>
    /\ file_name_stack = <<>>
    /\ disk = NoFiles
    /\ created = {}
    /\ shard_text = <<>>
    /\ http_log = <<>>
    /\ error = "none"
    /\ raised_in = "none"
    /\ result = NotReturned
    /\ clock = 1
    /\ query_parameters \in SignDicts
    /\ signed_parameters = <<>>
    /\ signature_string = <<>>
    /\ sent_requests = <<>>
    /\ InitOutsideCall

SpecSign == InitSign /\ [][Signing]_vars

\* the keys of the items are in ascending order
KeysAscending(items) ==
    \A i \in DOMAIN items : \A j \in DOMAIN items :
        i < j => StrLess(items[i][1], items[j][1])

\* "param2/1/alibaba.dme.lark/{api_name}/{app_key}"
SignatureFactorUrl == SIGNATURE_FACTOR_PREFIX \o API_NAME \o <<47>> \o APP_KEY

\* C14: the string get_signature signs is
\* "param2/1/alibaba.dme.lark/{api_name}/{app_key}" followed by key + value
\* of every item in ascending order of the keys, and it is the same for every
\* insertion order of the same items.
C14_CanonicalStringSortedByKey ==
    pc = "requesting"
        => /\ \E ordered \in Orderings(signed_parameters, DOMAIN signed_parameters) :
                  /\ KeysAscending(ordered)
                  /\ signature_string = SignatureFactorUrl \o KeyValueConcat(ordered)
           /\ \A other \in Orderings(signed_parameters, DOMAIN signed_parameters) :
                  signature_string_of(API_NAME, other, APP_KEY) = signature_string

\* the dict {"b": "2", "a": "1"} was signed and the string ends with "a1b2"
C14_Witness ==
    /\ pc = "requesting"
    /\ signed_parameters = << <<<<98>>, <<50>>>>, <<<<97>>, <<49>>>> >>
    /\ signature_string = SignatureFactorUrl \o <<97, 49, 98, 50>>

----------------------------------------------------------------------------
(* The signed vendor request *)

\* the items of a sent dict other than the signature
SentWithoutSignature(sent) ==
    {sent[i] : i \in {j \in DOMAIN sent : sent[j][1] # KEY_aop_signature}}

\* C15: in every vendor request of the call, the parameters that were signed
\* are the parameters sent without _aop_signature: the signature is not
\* part of the string it signs, the sent signature is the one of that string
\* and the _aop_timestamp signed is the one sent.
C15_SignedIsSentMinusSignature ==
    \A r \in DOMAIN sent_requests :
        LET sent == sent_requests[r]
        IN  /\ KEY_aop_signature \notin DictKeys(signed_parameters)
            /\ KEY_aop_signature \in DictKeys(sent)
            /\ Range(signed_parameters) = SentWithoutSignature(sent)
            /\ DictGet(sent, KEY_aop_signature)
                   = hmac_sha1_hexdigest_upper(SECRET_KEY, signature_string)
            /\ signature_string
                   = SignatureFactorUrl
                         \o KeyValueConcat(sorted_items(signed_parameters))
            /\ DictGet(signed_parameters, KEY_aop_timestamp)
                   = DictGet(sent, KEY_aop_timestamp)

\* a month query stamped with the clock reading 2 was sent to the vendor
C15_Witness ==
    /\ Len(sent_requests) = 1
    /\ entries[2] = "month"
    /\ clock = 2
    /\ DictGet(sent_requests[1], KEY_aop_timestamp) = <<50>>
    /\ Len(sent_requests[1]) = 8

----------------------------------------------------------------------------
(* The caller's loop: get_financial_data is called again after a call has   *)
(* ended, MaxCalls vendor queries at most.                                  *)

CallAgain ==
    /\ UNCHANGED OutsideCall
    /\ pc \in {"raised", "returned"}
    /\ Len(sent_requests) < MaxCalls
    /\ pc' = "idle"
    /\ entries' = <<"", "", <<>>>>
    /\ vendor_response' = NoEnvelope
    /\ download_url_list' = <<>>
    /\ file_id' = 0
    /\ file_path_stack' = <<>>
    /\ file_name_stack' = <<>>
    /\ error' = "none"
    /\ raised_in' = "none"
    /\ result' = NotReturned
    /\ query_parameters' = <<>>
    /\ signed_parameters' = <<>>
    /\ signature_string' = <<>>
    /\ UNCHANGED <<timestamp_column, disk, created, shard_text, http_log, clock,
                   sent_requests>>

NextCalls ==
    \/ Validating
    \/ Signing
    \/ RequestingTransportError
    \/ RequestingStatusError
    \/ CallAgain

SpecCalls == Init /\ [][NextCalls]_vars

\* C16: no two calls send an identical signed request: the _aop_timestamp of
\* each differs from that of every earlier call.
C16_NoTwoIdenticalSignedRequests ==
    \A i \in DOMAIN sent_requests : \A j \in DOMAIN sent_requests :
        i # j => /\ sent_requests[i] # sent_requests[j]
                 /\ DictGet(sent_requests[i], KEY_aop_timestamp)
                        # DictGet(sent_requests[j], KEY_aop_timestamp)

----------------------------------------------------------------------------
(* A Decrypter: its construction and its decode calls *)

\* the secrets a Decrypter is built from: "democs" and the lease code
Secrets == {DEMOCS, LEASE_CODE}

\* decrypted texts: NUL, US, space and "A" in any order
Plaintexts == UNION {[1..n -> {0, 31, 32, 65}] : n \in 0..MaxTextLen}

\* the values the vendor encrypts under the key of a secret
EncryptedValues ==
    UNION {LET key == fromhex(get_sha1prng_key(k))
           IN  {Encrypted(key, p) : p \in Plaintexts} : k \in Secrets}

\* Decrypter.__init__
Construct ==
    /\ decrypter = NoDecrypter
    /\ \E module \in DecrypterModules, key \in Secrets :
        /\ decrypter' = [module |-> module, key |-> key,
                         sha1prng_key |-> get_sha1prng_key(key)]
        /\ derivations' = Append(derivations, key)
    /\ UNCHANGED <<decode_value, decode_key, decode_result>>
    /\ UNCHANGED OutsideDecrypter

\* the hexadecimal key AES.new is given in decode: self.sha1prng_key in
\* utility.sha1prng, self.get_sha1prng_key("democs") in sha1prng.sha1prng
key_of_decode(d) ==
    IF d.module = "utility.sha1prng" THEN d.sha1prng_key ELSE get_sha1prng_key(DEMOCS)

\* Decrypter.decode
Decode ==
    /\ decrypter # NoDecrypter
    /\ Len(derivations) < MaxDerivations
    /\ LET key == key_of_decode(decrypter)
           cryptor == fromhex(key)
       IN  \E value \in EncryptedValues :
               LET decrypted == aes_ecb_decrypt(cryptor, value)
               IN  /\ decode_value' = value
                   /\ decode_key' = key
                   /\ decode_result' =
                          IF ascii_decode_raises(decrypted)
                          THEN [raises |-> "ValueError", returns |-> <<>>]
                          ELSE [raises |-> "none",
                                returns |-> remove_control_characters(
                                                decrypter.module, decrypted)]
    /\ derivations' = IF decrypter.module = "utility.sha1prng"
                      THEN derivations
                      ELSE Append(derivations, DEMOCS)
    /\ UNCHANGED decrypter
    /\ UNCHANGED OutsideDecrypter

NextDecrypter ==
    \/ Construct
    \/ Decode

SpecDecrypter == Init /\ [][NextDecrypter]_vars

\* the latest decode call returned a text
Decoded == decode_result.raises = "none"

\* the text the latest decode call decrypted, before the stripping
DecryptedText == aes_ecb_decrypt(fromhex(decode_key), decode_value)

\* C17: decode removes from the end of the decrypted text exactly the
\* maximal run of trailing characters in 0x00-0x1F and no other character: a
\* trailing space is kept.
C17_StripsExactlyTrailingControlCharacters ==
    Decoded
        => \E n \in 0..Len(DecryptedText) :
               /\ decode_result.returns = SubSeq(DecryptedText, 1, n)
               /\ \A i \in (n + 1)..Len(DecryptedText) : DecryptedText[i] \in 0..31
               /\ n > 0 => DecryptedText[n] \notin 0..31

\* C18: decode decrypts with the key derived once, at construction, from
\* the secret the Decrypter was built with; decode derives no key, and
\* Decrypters of different secrets have different keys.
C18_DecodeUsesKeyOfConstruction ==
    /\ decode_result # NoResult
           => /\ decode_key = get_sha1prng_key(decrypter.key)
              /\ decode_key = decrypter.sha1prng_key
              /\ derivations = <<decrypter.key>>
    /\ \A a \in Secrets : \A b \in Secrets :
           a # b => get_sha1prng_key(a) # get_sha1prng_key(b)

\* the upper-case hexadecimal digits
UpperHexDigits == 48..57 \cup 65..70

----------------------------------------------------------------------------
(* The scheduler process and the runs of job_per_day *)

\* __main__: _message_init, then scheduler.start(); an exception of either
\* ends the process with os._exit(1)
SchedulerStarts ==
    /\ scheduler = "initializing"
    /\ scheduler' \in {"running", "exited"}
    /\ UNCHANGED <<job_step, job_executed, job_failed, job_log>>
    /\ UNCHANGED OutsideScheduler

\* the cron trigger of 08:15 calls job_per_day
DailyJobFires ==
    /\ scheduler = "running"
    /\ job_step = 0
    /\ Len(job_log) < MaxRuns
    /\ job_step' = 1
    /\ job_executed' = <<>>
    /\ job_failed' = "none"
    /\ UNCHANGED <<scheduler, job_log>>
    /\ UNCHANGED OutsideScheduler

\* the next call of job_per_day returns; after the last one the run is over
JobStepReturns ==
    /\ job_step \in DOMAIN JOB_STEPS
    /\ job_executed' = Append(job_executed, JOB_STEPS[job_step])
    /\ IF job_step = Len(JOB_STEPS)
       THEN /\ job_step' = 0
            /\ job_log' = Append(job_log, "none")
       ELSE /\ job_step' = job_step + 1
            /\ UNCHANGED job_log
    /\ UNCHANGED <<scheduler, job_failed>>
    /\ UNCHANGED OutsideScheduler

\* the next call of job_per_day raises: upload_data logs and re-raises, and
\* neither sync_all_yesterday, _job_for_others nor job_per_day catches, so
\* the exception leaves job_per_day and the run is over. The executor of the
\* scheduler logs an exception that leaves a job, and the scheduler goes on.
JobStepRaises ==
    /\ job_step \in DOMAIN JOB_STEPS
    /\ job_failed' = JOB_STEPS[job_step]
    /\ job_step' = 0
    /\ job_log' = Append(job_log, JOB_STEPS[job_step])
    /\ UNCHANGED <<scheduler, job_executed>>
    /\ UNCHANGED OutsideScheduler

NextScheduler ==
    \/ SchedulerStarts
    \/ DailyJobFires
    \/ JobStepReturns
    \/ JobStepRaises

SpecScheduler == Init /\ [][NextScheduler]_vars

\* a run of job_per_day is over
RunOver == job_step = 0 /\ job_log # <<>>

\* C20: when the sync of one report category fails in a run of the daily
\* job, the run skips that category only: at its end every other step, the
\* other categories, the screening sync, the ticket-window cleanup and the
\* completion message, has been executed, and the scheduler keeps running.
C20_FailedCategoryOnlySkipsItself ==
    (RunOver /\ job_failed \in SYNCED_CATEGORIES)
        => /\ Range(job_executed) = Range(JOB_STEPS) \ {job_failed}
           /\ scheduler = "running"

----------------------------------------------------------------------------
(* A FinancialQueries object: its construction and its add_new_query calls *)

\* FinancialQueries.__init__: the arguments are stored as they are given
QueriesConstruct ==
    /\ queries = NoQueries
    /\ \E c \in QueryCategories, t \in QueryTimespans, d \in QueryDates :
        /\ queries' = [category |-> c, time_spans |-> <<t>>, query_dates |-> <<d>>,
                       size |-> 1]
        /\ queries_accepted' = <<<<c, t, d>>>>
    /\ queries_raised' = "none"
    /\ UNCHANGED OutsideQueries

\* add_new_query
AddNewQuery ==
    /\ queries # NoQueries
    /\ queries.size < MaxQueries
    /\ \E t \in QueryTimespans, d \in QueryDates :
        IF t \notin VALID_TIME_SPANS \/ ~is_real_and_valid_date(t, d)
        THEN /\ queries_raised' = "ValueError"
             /\ UNCHANGED <<queries, queries_accepted>>
        ELSE /\ queries' = [queries EXCEPT !.time_spans = Append(@, t),
                                           !.query_dates = Append(@, d),
                                           !.size = @ + 1]
             /\ queries_accepted' = Append(queries_accepted, <<queries.category, t, d>>)
             /\ queries_raised' = "none"
    /\ UNCHANGED OutsideQueries

NextQueries ==
    \/ QueriesConstruct
    \/ AddNewQuery

SpecQueries == Init /\ [][NextQueries]_vars

\* C21: after any construction and add_new_query calls the batch is not
\* empty, size is the length of both lists, to_tuple gives the entries in
\* the order they were given, and every entry, the one of the constructor
\* included, has a granularity of day or month and a date that parses under
\* the format of that granularity.
C21_BatchIsNonEmptyOrderedAndValid ==
    queries # NoQueries
        => /\ queries.size >= 1
           /\ queries.size = Len(queries.time_spans)
           /\ queries.size = Len(queries.query_dates)
           /\ to_tuple(queries) = queries_accepted
           /\ \A i \in 1..queries.size :
                  /\ queries.time_spans[i] \in {"day", "month"}
                  /\ strptime_parses(queries.query_dates[i],
                                     DATE_FORMATS(queries.time_spans[i]))

----------------------------------------------------------------------------
(* sync_most_recent_data run repeatedly on one destination table *)

\* the table the syncs are run on, a table the app does not have, and a
\* blank name
DESTINATION == "tickets"
SyncTableNames == {DESTINATION, "absent", ""}

\* the day of the rows the vendor reports for yesterday: later than every
\* day of the table
Yesterday == MaxDays + 1

\* the vendor's rows for yesterday, the same at every call
VendorRows == <<[line |-> 1, day |-> Yesterday], [line |-> 2, day |-> Yesterday]>>

\* the response codes of n requests: 0, or 1 for any other code
Codes(n) == [1..n -> {0, 1}]

\* the days of the records of a table: each day's rows were appended after
\* the rows of the days before
DaySeqs == UNION {[1..n -> 0..MaxDays] : n \in 0..MaxRecords}

Ascending(days) ==
    \A i \in DOMAIN days : \A j \in DOMAIN days :
        (i < j /\ days[i] # 0 /\ days[j] # 0) => days[i] <= days[j]

Tables ==
    {[i \in DOMAIN days |-> [record_id |-> i, day |-> days[i]]] :
        days \in {d \in DaySeqs : Ascending(d)}}

\* the app with the destination table holding the given records
ServiceWith(records) ==
    [t \in {WIKI_OBJ_TOKEN} |->
        <<[name |-> DESTINATION, table_id |-> "tblA", records |-> records]>>]

\* a finished call, for the history
Done(op, table_name, path, had_file, ids, codes, r, outcome, remove_fails) ==
    [op |-> op, table_name |-> table_name, path |-> path, had_file |-> had_file,
     ids |-> ids, codes |-> codes, raises |-> r.raises, sent |-> r.sent,
     outcome |-> outcome, remove_fails |-> remove_fails, service |-> r.service]

\* the state outside the FeishuClient, before anything has run
InitOutsideFeishu ==
    /\ InitCall
    /\ timestamp_column = 0
    /\ InitDecrypter
    /\ InitScheduler
    /\ InitQueries
    /\ InitFind
    /\ InitJobs

InitSync ==
    /\ InitOutsideFeishu
    /\ \E records \in Tables : feishu_service = ServiceWith(records)
    /\ feishu_next_id = MaxRecords + 1
    /\ csv_files = NoFiles
    /\ feishu_requests = <<>>
    /\ feishu_raised = "none"
    /\ feishu_done = <<>>

\* one run of sync_most_recent_data("C01", table_name)
SyncMostRecentData ==
    /\ UNCHANGED OutsideFeishu
    /\ Len(feishu_done) < MaxSyncs
    /\ \E table_name \in SyncTableNames, delete_codes \in Codes(1),
          create_code \in {0, 1}, codes \in Codes(1), remove_fails \in BOOLEAN :
        LET r == sync_most_recent_data(feishu_service, csv_files, feishu_next_id,
                                       "C01", table_name, VendorRows, delete_codes,
                                       create_code, codes, remove_fails)
        IN  /\ feishu_service' = r.service
            /\ feishu_next_id' = r.next_id
            /\ csv_files' = r.files
            /\ feishu_requests' = r.sent
            /\ feishu_raised' = r.raises
            /\ feishu_done' = Append(feishu_done,
                                  Done("sync_most_recent_data", table_name,
                                       UploadPath("C01"),
                                       UploadPath("C01") \in DOMAIN csv_files,
                                       <<>>, delete_codes, r,
                                       IF r.raises = "none" THEN "returned"
                                       ELSE "raised",
                                       remove_fails))

SpecSync == InitSync /\ [][SyncMostRecentData]_vars

\* the records of the table of that name, as a set
DestinationRecords(service, table_name) ==
    LET found == initialize_request(service, table_name, WIKI_OBJ_TOKEN)
    IN  IF found.raises # "none" \/ found.table_id = None THEN {}
        ELSE Range(RecordsOf(service, WIKI_OBJ_TOKEN, found.table_id))

----------------------------------------------------------------------------
(* post_csv_data_to_feishu called on a CSV file *)

\* a CSV file of n data rows
CsvRows(n) == [i \in 1..n |-> [line |-> i, day |-> Yesterday]]

\* the sizes of the CSV file: around each multiple of max_rows_per_post
UploadRowCounts ==
    {k * max_rows_per_post + d : k \in 0..MaxChunks, d \in {-1, 0, 1}} \ {-1}

\* the arguments of the call: the token left None, the app's token, and a
\* token of no app; a table the app has and one it does not have; a
\* category with a schema and one without
UploadTokens == {None, WIKI_OBJ_TOKEN, DESTINATION}
UploadTableNames == {DESTINATION, "absent"}
UploadCategories == {"C01", "C99"}

\* the file is there with some rows, or it is not there
InitUpload ==
    /\ InitOutsideFeishu
    /\ feishu_service = ServiceWith(<<>>)
    /\ feishu_next_id = 1
    /\ \/ csv_files = NoFiles
       \/ \E n \in UploadRowCounts :
              csv_files = Write(NoFiles, UploadPath("C01"), CsvRows(n))
    /\ feishu_requests = <<>>
    /\ feishu_raised = "none"
    /\ feishu_done = <<>>

\* one call of post_csv_data_to_feishu
PostCsvDataToFeishu ==
    /\ UNCHANGED OutsideFeishu
    /\ feishu_done = <<>>
    /\ \E wiki_obj_token \in UploadTokens, table_name \in UploadTableNames,
          financial_category \in UploadCategories, create_code \in {0, 1},
          codes \in Codes(MaxChunks + 1), remove_fails \in BOOLEAN :
        LET path == UploadPath("C01")
            r == post_csv_data_to_feishu(feishu_service, csv_files, feishu_next_id,
                                         path, wiki_obj_token, table_name,
                                         financial_category, create_code, codes,
                                         remove_fails)
        IN  /\ feishu_service' = r.service
            /\ feishu_next_id' = r.next_id
            /\ csv_files' = r.files
            /\ feishu_requests' = r.sent
            /\ feishu_raised' = r.raises
            /\ feishu_done' = Append(feishu_done,
                                  Done("post_csv_data_to_feishu", table_name, path,
                                       path \in DOMAIN csv_files, <<>>, codes, r,
                                       r.outcome, remove_fails))

SpecUpload == InitUpload /\ [][PostCsvDataToFeishu]_vars

\* the latest finished call
LastDone == feishu_done[Len(feishu_done)]

\* C23: after post_csv_data_to_feishu finishes, whether it returns normally,
\* returns early because the CSV has no rows, or raises because the table
\* lookup, the table creation or a chunk upload failed, the CSV file at the
\* given path no longer exists, unless the deletion itself failed.
C23_CsvIsGoneAfterUpload ==
    (/\ feishu_done # <<>>
     /\ LastDone.op = "post_csv_data_to_feishu"
     /\ LastDone.outcome \in {"returned", "returned early", "raised"}
     /\ ~LastDone.remove_fails)
        => LastDone.path \notin DOMAIN csv_files

\* a file was there when the upload of its second chunk was refused, and
\* is gone
C23_Witness ==
    /\ feishu_done # <<>>
    /\ LastDone.op = "post_csv_data_to_feishu"
    /\ LastDone.had_file
    /\ LastDone.outcome = "raised"
    /\ Len(LastDone.sent) = 2
    /\ ~LastDone.remove_fails
    /\ LastDone.path \notin DOMAIN csv_files

----------------------------------------------------------------------------
(* The order of the requests of one get_financial_data call *)

\* the requests this call sent to the vendor's query API
VendorRequests == {i \in DOMAIN http_log : http_log[i].kind = "vendor"}

\* C24: within one get_financial_data call there are no retries and no
\* overlap: the vendor query is issued at most once, each encrypted link is
\* fetched at most once, and the links are processed one at a time in the
\* order the vendor returned them: the k-th shard request is for link k, it
\* comes after the vendor query, and shard k-1 was written before it.
C24_OneQueryThenLinksInOrder ==
    /\ Cardinality(VendorRequests) <= 1
    /\ \A i \in ShardRequests :
        /\ VendorRequests # {}
        /\ \A v \in VendorRequests : v < i
        /\ http_log[i].link = Cardinality({j \in ShardRequests : j <= i})
        /\ http_log[i].link <= Len(download_url_list)
        /\ \A k \in 1..(http_log[i].link - 1) :
               ShardName(entries[1], entries[3], k - 1) \in created
    /\ file_id <= Cardinality(ShardRequests)
    /\ Cardinality(ShardRequests) <= file_id + 1

\* both links of a two-link answer were fetched and written
C24_Witness ==
    /\ Cardinality(VendorRequests) = 1
    /\ Cardinality(ShardRequests) = 2
    /\ Len(download_url_list) = 2
    /\ Len(file_path_stack) = 2
    /\ pc = "returned"

----------------------------------------------------------------------------
(* What order_by_time leaves of the rows *)

\* order_by_time returned
OrderingReturned == pc = "returned" /\ result = OutputCsv

\* the data lines of a report that are equal to row
LinesEqual(lines, row) == {i \in 2..Len(lines) : lines[i] = row}

\* a data line as the claim expects it in the output: cut or padded to the
\* width of the header, and the timestamp emptied when it is no timestamp
Reserialized(line, ncols) ==
    [c \in 1..ncols |->
        IF c > Len(line) THEN ""
        ELSE IF c = timestamp_column + 1 /\ line[c] \notin {T1, T2} THEN ""
        ELSE line[c]]

\* the data lines of a report that are reserialized to row
LinesReserializedTo(lines, row) ==
    {i \in 2..Len(lines) : Reserialized(lines[i], Len(lines[1])) = row}

----------------------------------------------------------------------------
(* delete_records_by_id called on a list of record ids *)

\* the lengths of the id list: around each multiple of MAX_CHUNK_SIZE
DeleteCounts ==
    {k * MAX_CHUNK_SIZE + d : k \in 0..MaxChunks, d \in {-1, 0, 1}} \ {-1}

\* the id lists: the record ids from 1 on
IdLists == {[i \in 1..n |-> i] : n \in DeleteCounts}

InitDelete ==
    /\ InitOutsideFeishu
    /\ \E records \in Tables : feishu_service = ServiceWith(records)
    /\ feishu_next_id = MaxRecords + 1
    /\ csv_files = NoFiles
    /\ feishu_requests = <<>>
    /\ feishu_raised = "none"
    /\ feishu_done = <<>>

\* one call of delete_records_by_id with wiki_obj_token left None
DeleteRecordsById ==
    /\ UNCHANGED OutsideFeishu
    /\ feishu_done = <<>>
    /\ \E table_name \in {DESTINATION, "absent"}, ids_to_delete \in IdLists,
          codes \in Codes(MaxChunks + 1) :
        LET r == delete_records_by_id(feishu_service, table_name, ids_to_delete,
                                      None, codes)
        IN  /\ feishu_service' = r.service
            /\ feishu_requests' = r.sent
            /\ feishu_raised' = r.raises
            /\ feishu_done' = Append(feishu_done,
                                  Done("delete_records_by_id", table_name,
                                       UploadPath("C01"), FALSE, ids_to_delete,
                                       codes, r,
                                       IF r.raises = "none" THEN "returned"
                                       ELSE "raised",
                                       FALSE))
    /\ UNCHANGED <<feishu_next_id, csv_files>>

SpecDelete == InitDelete /\ [][DeleteRecordsById]_vars

\* the k-th of the consecutive pieces of at most MAX_CHUNK_SIZE ids
Piece(ids, k) ==
    SubSeq(ids, (k - 1) * MAX_CHUNK_SIZE + 1,
           IF k * MAX_CHUNK_SIZE < Len(ids) THEN k * MAX_CHUNK_SIZE ELSE Len(ids))

\* C26: for a list of n >= 1 ids delete_records_by_id sends batch_delete
\* requests of at most 500 ids each, the k-th carrying the k-th consecutive
\* piece of the list; it sends ceil(n/500) of them, which together are the
\* list, when every response has code 0, and it sends nothing more after a
\* response with a non-zero code.
C26_DeletesInChunksUntilRefused ==
    (/\ feishu_done # <<>>
     /\ LastDone.op = "delete_records_by_id"
     /\ LastDone.table_name = DESTINATION
     /\ Len(LastDone.ids) >= 1)
        => LET ids == LastDone.ids
               sent == LastDone.sent
               codes == LastDone.codes
               all == (Len(ids) + MAX_CHUNK_SIZE - 1) \div MAX_CHUNK_SIZE
           IN  /\ Len(sent) >= 1
               /\ Len(sent) <= all
               /\ \A k \in DOMAIN sent :
                      /\ Len(sent[k]) <= MAX_CHUNK_SIZE
                      /\ sent[k] = Piece(ids, k)
                      /\ k < Len(sent) => codes[k] = 0
               /\ (\A k \in 1..all : codes[k] = 0)
                      => /\ Len(sent) = all
                         /\ Flatten(sent) = ids
                         /\ LastDone.raises = "none"
               /\ (\E k \in 1..all : codes[k] # 0)
                      => /\ codes[Len(sent)] # 0
                         /\ LastDone.raises = "Exception"

\* a list of 1001 ids was given up after its second request was refused
C26_Witness ==
    /\ feishu_done # <<>>
    /\ LastDone.op = "delete_records_by_id"
    /\ LastDone.table_name = DESTINATION
    /\ Len(LastDone.ids) = 2 * MAX_CHUNK_SIZE + 1
    /\ Len(LastDone.sent) = 2
    /\ Len(LastDone.sent[2]) = MAX_CHUNK_SIZE
    /\ LastDone.raises = "Exception"

\* C27: delete_records_by_id with an empty id list sends no request and
\* returns without raising.
C27_EmptyListIsNoOp ==
    (/\ feishu_done # <<>>
     /\ LastDone.op = "delete_records_by_id"
     /\ LastDone.table_name = DESTINATION
     /\ LastDone.ids = <<>>)
        => /\ LastDone.sent = <<>>
           /\ LastDone.raises = "none"

----------------------------------------------------------------------------
(* read_csv applied to a CSV file *)

\* the sizes of the CSV file: near each multiple of max_rows_per_post
ReadCsvRowCounts ==
    {n \in {k * max_rows_per_post + d : k \in 0..MaxChunks, d \in (-MaxSpread)..MaxSpread} :
        n >= 0}

InitReadCsv ==
    /\ InitOutsideFeishu
    /\ feishu_service = ServiceWith(<<>>)
    /\ feishu_next_id = 1
    /\ \E n \in ReadCsvRowCounts :
           csv_files = Write(NoFiles, UploadPath("C01"), CsvRows(n))
    /\ feishu_requests = <<>>
    /\ feishu_raised = "none"
    /\ feishu_done = <<>>

\* read_csv(path): the list it returns is kept in feishu_requests
ReadCsv ==
    /\ UNCHANGED OutsideFeishu
    /\ feishu_done = <<>>
    /\ LET path == UploadPath("C01")
           r == [raises |-> "none", sent |-> read_csv(csv_files[path]),
                 service |-> feishu_service]
       IN  /\ feishu_requests' = r.sent
           /\ feishu_raised' = r.raises
           /\ feishu_done' = Append(feishu_done,
                                 Done("read_csv", "", path, TRUE, <<>>, <<>>, r,
                                      "returned", FALSE))
    /\ UNCHANGED <<feishu_service, feishu_next_id, csv_files>>

SpecReadCsv == InitReadCsv /\ [][ReadCsv]_vars

\* C28: read_csv returns the rows of the CSV as consecutive chunks in file
\* order, each chunk a list of at most 1000 records, every record being
\* {"fields": the field dict of exactly one CSV row}; every row appears in
\* exactly one record, and an empty CSV gives an empty list of chunks.
C28_ChunksOfOneRecordPerRow ==
    (feishu_done # <<>> /\ LastDone.op = "read_csv")
        => LET rows == csv_files[LastDone.path]
               chunks == feishu_requests
               records == Flatten(chunks)
           IN  /\ rows = <<>> => chunks = <<>>
               /\ \A k \in DOMAIN chunks :
                      /\ Len(chunks[k]) >= 1
                      /\ Len(chunks[k]) <= max_rows_per_post
                      /\ k < Len(chunks) => Len(chunks[k]) = max_rows_per_post
               /\ Len(records) = Len(rows)
               /\ \A j \in DOMAIN records :
                      /\ records[j].fields_type = "dict"
                      /\ records[j].fields = <<rows[j]>>

----------------------------------------------------------------------------
(* find_matching_table applied to a table list *)

\* the items of a table list: "name" and "table_id" are missing in some
Items == [name : {DESTINATION, "other", None}, table_id : {"tblA", "tblB", None}]

\* the answers: without "data", with "data" but without "items", and with
\* a list of items
JsonInputs ==
    {NoJson, [has_data |-> TRUE, has_items |-> FALSE, items |-> <<>>]}
        \cup {[has_data |-> TRUE, has_items |-> TRUE, items |-> items] :
                 items \in UNION {[1..n -> Items] : n \in 0..MaxItems}}

InitFindMatchingTable ==
    /\ InitCall
    /\ timestamp_column = 0
    /\ InitDecrypter
    /\ InitScheduler
    /\ InitQueries
    /\ InitFeishu
    /\ InitJobs
    /\ find_json_data \in JsonInputs
    /\ find_table_name \in {None, DESTINATION, "absent"}
    /\ find_result = NotCalled

\* find_matching_table(json_data, table_name)
FindMatchingTable ==
    /\ UNCHANGED OutsideFind
    /\ find_result = NotCalled
    /\ find_result' = find_matching_table(find_json_data, find_table_name)
    /\ UNCHANGED <<find_json_data, find_table_name>>

SpecFind == InitFindMatchingTable /\ [][FindMatchingTable]_vars

\* the positions of the items of that name
Matches == {i \in DOMAIN find_json_data.items :
               find_json_data.items[i].name = find_table_name}

\* C29: find_matching_table returns the table_id of the first item of
\* json_data["data"]["items"] whose name equals table_name, and returns
\* None, without raising, when table_name is None, when no item matches,
\* or when json_data lacks the "data" or the "items" field.
C29_FirstMatchOrNone ==
    find_result # NotCalled
        => /\ find_result.raises = "none"
           /\ find_result.value =
                  IF \/ find_table_name = None
                     \/ ~find_json_data.has_data
                     \/ ~find_json_data.has_items
                     \/ Matches = {}
                  THEN None
                  ELSE find_json_data.items[First(Matches)].table_id

----------------------------------------------------------------------------
(* The two scheduled jobs in the pool of the scheduler: main.py. A trigger  *)
(* instant is a minute of the day; fired_at is -1 until the first fires.    *)
(* The executor of BlockingScheduler runs the executions of the jobs in a   *)
(* thread pool, side by side; a job added without max_instances has one     *)
(* instance at most, and a run that is due while the instance before it is  *)
(* still running is skipped.                                                *)

\* add_job: the default of max_instances
max_instances == 1

\* the cron triggers of the two add_job calls, as minutes of the day
TriggerMinutes(job) ==
    IF job = "job_per_day" THEN {8 * 60 + 15}
    ELSE {hour * 60 : hour \in {0} \cup 8..23}

Jobs == {"job_per_day", "job_per_hour"}

AllTriggerMinutes == UNION {TriggerMinutes(job) : job \in Jobs}

\* the trigger instant that follows minute m of the day
NextTrigger(m) ==
    IF \E t \in AllTriggerMinutes : t > m
    THEN First({t \in AllTriggerMinutes : t > m})
    ELSE First(AllTriggerMinutes)

\* the job of a trigger instant
JobAt(m) == CHOOSE job \in Jobs : m \in TriggerMinutes(job)

\* job_per_hour in the order of the calls of _job_for_cinema_tickets_hourly
HOURLY_STEPS == <<"get_table_records_id_after_date", "delete_records_by_id",
                  "upload_data", "_message_after_tickets_job">>

\* the calls of a job
StepsOf(job) == IF job = "job_per_day" THEN JOB_STEPS ELSE HOURLY_STEPS

\* the report category an execution is fetching, merging and uploading:
\* upload_data of sync_all_yesterday, upload_future_data('C18') of
\* sync_screening_data, upload_data of the hourly job with 'C01'
CategoryOf(e) ==
    LET step == StepsOf(e.job)[e.step]
    IN  IF e.job = "job_per_day" /\ step \in SYNCED_CATEGORIES THEN step
        ELSE IF e.job = "job_per_day" /\ step = "sync_screening_data" THEN "C18"
        ELSE IF e.job = "job_per_hour" /\ step = "upload_data" THEN "C01"
        ELSE "none"

\* a scheduler that starts a run whatever is running
can_submit_always(job, running) == TRUE

\* the run of a job is started only below max_instances running instances
can_submit(job, running) ==
    Cardinality({i \in DOMAIN running : running[i].job = job}) < max_instances

\* the executions without the i-th
WithoutExecution(running, i) ==
    SubSeq(running, 1, i - 1) \o SubSeq(running, i + 1, Len(running))

\* the scheduler wakes up at the next trigger instant; the process may have
\* been started at any time of the day
TriggerFires ==
    /\ UNCHANGED OutsideJobs
    /\ \E m \in AllTriggerMinutes :
        /\ fired_at = -1 \/ m = NextTrigger(fired_at)
        /\ fired_at' = m
        /\ IF can_submit(JobAt(m), executions) /\ Len(executions) < MaxExecutions
           THEN executions' = Append(executions, [job |-> JobAt(m), step |-> 1])
           ELSE UNCHANGED executions

\* the current call of an execution returns; after the last one the
\* execution is over
ExecutionStepReturns ==
    /\ UNCHANGED OutsideJobs
    /\ \E i \in DOMAIN executions :
        executions' =
            IF executions[i].step = Len(StepsOf(executions[i].job))
            THEN WithoutExecution(executions, i)
            ELSE [executions EXCEPT ![i].step = @ + 1]
    /\ UNCHANGED fired_at

\* the current call of an execution raises: the exception leaves the job,
\* the executor logs it and the execution is over
ExecutionStepRaises ==
    /\ UNCHANGED OutsideJobs
    /\ \E i \in DOMAIN executions :
        executions' = WithoutExecution(executions, i)
    /\ UNCHANGED fired_at

NextJobs ==
    \/ TriggerFires
    \/ ExecutionStepReturns
    \/ ExecutionStepRaises

SpecJobs == Init /\ [][NextJobs]_vars

====
